---- MODULE Spec2Model ----
(***************************************************************************)
(* A model of the GPU-cluster scheduling simulator: the GPU / rack /       *)
(* cluster occupancy model (src/core), the six scheduling policies         *)
(* (src/schedulers) and the tick loop of Simulator.run (src/simulator.py). *)
(*                                                                         *)
(* Numbers.  Times, durations and memory sizes are integers.  Penalties    *)
(* and sharing efficiencies are kept in tenths: One (10) stands for 1.0,   *)
(* 12 for 1.2, 9 for 0.9.  A comparison of products of such factors is     *)
(* made on the integers after clearing the denominators.                   *)
(***************************************************************************)
EXTENDS Integers, Sequences, FiniteSets, TLC

VARIABLES
    cluster,        \* Cluster.__init__ parameters (constant during a run)
    gpus,           \* Cluster.gpu_map: GPU id -> GPU fields
    scheduler,      \* the scheduler object: kind and its parameters
    config,         \* SimulatorConfig
    sorted_tasks,   \* Simulator.run's sorted_tasks: sequence of Task records
    current_time,   \* Simulator.current_time
    pc,             \* position inside Simulator.run
    pending_tasks,  \* run()'s local list pending_tasks (indices of sorted_tasks)
    running_tasks,  \* run()'s local list running_tasks (indices of sorted_tasks)
    allocations,    \* the dict returned by scheduler.schedule at this tick
    metrics,        \* Metrics: total_gpu_time and the recorded task ids
    history         \* log of the calls made: one entry per schedule() call of a
                    \* run, or per GPU method call when a GPU is driven directly

vars == <<cluster, gpus, scheduler, config, sorted_tasks, current_time, pc,
          pending_tasks, running_tasks, allocations, metrics, history>>

-----------------------------------------------------------------------------
(* Bounds of the model *)

NumTasks == 2

(* 1.0 in tenths *)
One == 10

(* float('inf') and None *)
Infinity == -1
None == -2

-----------------------------------------------------------------------------
(* Generic helpers *)

Range(s) == {s[i] : i \in DOMAIN s}

Min2(a, b) == IF a <= b THEN a ELSE b

Max2(a, b) == IF a >= b THEN a ELSE b

\* s[:n]
Prefix(s, n) == SubSeq(s, 1, Min2(n, Len(s)))

RECURSIVE SeqSum(_)
SeqSum(s) == IF s = <<>> THEN 0 ELSE Head(s) + SeqSum(Tail(s))

SetMin(S) == CHOOSE x \in S : \A y \in S : x <= y

SetMax(S) == CHOOSE x \in S : \A y \in S : x >= y

\* list.remove(x): drops the first occurrence of x
RECURSIVE RemoveFirst(_, _)
RemoveFirst(s, x) ==
    IF s = <<>> THEN <<>>
    ELSE IF Head(s) = x THEN Tail(s)
    ELSE <<Head(s)>> \o RemoveFirst(Tail(s), x)

\* sorted(s, key=...): a stable sort.  keyed is the sequence of <<key, x>>
\* pairs; each element is inserted after the elements whose key is not larger.
RECURSIVE InsertByKey(_, _)
InsertByKey(s, p) ==
    IF s = <<>> THEN <<p>>
    ELSE IF Head(s)[1] <= p[1]
         THEN <<Head(s)>> \o InsertByKey(Tail(s), p)
         ELSE <<p>> \o s

RECURSIVE SortPairs(_)
SortPairs(keyed) ==
    IF keyed = <<>> THEN <<>>
    ELSE InsertByKey(SortPairs(SubSeq(keyed, 1, Len(keyed) - 1)),
                     keyed[Len(keyed)])

SortedByKey(keyed) ==
    LET sp == SortPairs(keyed) IN [i \in 1 .. Len(sp) |-> sp[i][2]]

-----------------------------------------------------------------------------
(* GPU (src/core/gpu.py) *)

NewGPU(total) ==
    [total_memory |-> total, used_memory |-> 0, running_tasks |-> <<>>,
     total_time |-> 0]

\* a faulty variant: the request is left out of the capacity test
GPU_can_allocate_ignores_request(gpu, memory_required) ==
    gpu.used_memory <= gpu.total_memory

\* a faulty variant: an empty GPU takes any request
GPU_can_allocate_empty_takes_all(gpu, memory_required) ==
    \/ gpu.used_memory = 0
    \/ gpu.used_memory + memory_required <= gpu.total_memory

GPU_can_allocate(gpu, memory_required) ==
    gpu.used_memory + memory_required <= gpu.total_memory

\* a faulty variant: the memory is reserved but the task id is not recorded
GPU_allocate_drops_id(gpu, task_id, memory_required) ==
    IF gpu.used_memory + memory_required > gpu.total_memory THEN gpu
    ELSE [gpu EXCEPT !.used_memory = @ + memory_required]

GPU_allocate(gpu, task_id, memory_required) ==
    IF ~GPU_can_allocate(gpu, memory_required) THEN gpu
    ELSE [gpu EXCEPT
            !.used_memory = @ + memory_required,
            !.running_tasks = IF task_id \in Range(@) THEN @
                              ELSE Append(@, task_id)]

\* a faulty variant: the task id is removed but its memory is not given back
GPU_deallocate_keeps_memory(gpu, task_id, memory_required) ==
    [gpu EXCEPT
        !.running_tasks = IF task_id \in Range(@) THEN RemoveFirst(@, task_id)
                          ELSE @]

\* a faulty variant: the memory is given back but the id stays
GPU_deallocate_keeps_id(gpu, task_id, memory_required) ==
    [gpu EXCEPT !.used_memory = Max2(0, @ - memory_required)]

GPU_deallocate(gpu, task_id, memory_required) ==
    [gpu EXCEPT
        !.running_tasks = IF task_id \in Range(@) THEN RemoveFirst(@, task_id)
                          ELSE @,
        !.used_memory = Max2(0, @ - memory_required)]

GPU_get_available_memory(gpu) == gpu.total_memory - gpu.used_memory

\* a faulty variant: the seconds are taken off the busy time
GPU_add_time_subtracts(gpu, seconds) ==
    IF Len(gpu.running_tasks) > 0
    THEN [gpu EXCEPT !.total_time = @ - seconds]
    ELSE gpu

\* a faulty variant: a busy GPU is charged one second per tick
GPU_add_time_one_second(gpu, seconds) ==
    IF Len(gpu.running_tasks) > 0
    THEN [gpu EXCEPT !.total_time = @ + 1]
    ELSE gpu

GPU_add_time(gpu, seconds) ==
    IF Len(gpu.running_tasks) > 0
    THEN [gpu EXCEPT !.total_time = @ + seconds]
    ELSE gpu

-----------------------------------------------------------------------------
(* Rack and Cluster (src/core/rack.py, src/core/cluster.py) *)

\* GPU ids in flat order: rack ordinal, then GPU ordinal within the rack.
\* Id g stands for "rack-R-G" with R = RackOf(g), G = (g-1) % gpus_per_rack.
get_total_gpus == cluster.num_racks * cluster.gpus_per_rack

GpuIds == 1 .. get_total_gpus

RackIds == 0 .. (cluster.num_racks - 1)

RackOf(g) == (g - 1) \div cluster.gpus_per_rack

get_all_gpus == [i \in 1 .. get_total_gpus |-> i]

Rack_get_all_gpus(r) ==
    [i \in 1 .. cluster.gpus_per_rack |-> r * cluster.gpus_per_rack + i]

NewGpuMap(c) ==
    [g \in 1 .. (c.num_racks * c.gpus_per_rack) |-> NewGPU(c.gpu_memory)]

\* a faulty variant: a GPU that holds a task is not offered again
Cluster_get_available_gpus_idle_only(G) ==
    SelectSeq(get_all_gpus, LAMBDA g : G[g].used_memory = 0)

Cluster_get_available_gpus(G) ==
    SelectSeq(get_all_gpus, LAMBDA g : GPU_get_available_memory(G[g]) > 0)

Rack_get_available_gpus(G, r) ==
    SelectSeq(Rack_get_all_gpus(r),
              LAMBDA g : GPU_get_available_memory(G[g]) > 0)

\* a faulty variant: every placement of two or more GPUs counts as
\* cross-rack
calculate_penalty_ignores_racks(gpu_ids) ==
    IF Len(gpu_ids) <= 1 THEN One ELSE cluster.inter_rack_penalty

calculate_penalty(gpu_ids) ==
    IF Len(gpu_ids) <= 1 THEN One
    ELSE LET racks_used == {RackOf(g) : g \in (Range(gpu_ids) \cap GpuIds)}
         IN  IF Cardinality(racks_used) = 1
             THEN cluster.intra_rack_penalty
             ELSE cluster.inter_rack_penalty

get_total_time(G) == SeqSum([g \in 1 .. get_total_gpus |-> G[g].total_time])

-----------------------------------------------------------------------------
(* Scheduler base class (src/schedulers/base.py) and the Pollux override   *)
(* of allocate (src/schedulers/pollux.py)                                  *)

Elastic == scheduler.kind \in {"pollux", "pollux_patient"}

\* a faulty variant: the placements made earlier in the call are not looked at
Claimed_nothing(A) == {}

\* The GPU ids already present in the allocations dict
Claimed(A) == UNION {Range(A[t]) : t \in DOMAIN A}

Scheduler_can_allocate(G, task, gpu_ids) ==
    /\ Len(gpu_ids) = task.num_gpus
    /\ \A i \in DOMAIN gpu_ids :
          /\ gpu_ids[i] \in GpuIds
          /\ GPU_can_allocate(G[gpu_ids[i]], task.memory_per_gpu)

Pollux_can_allocate(G, task, gpu_ids) ==
    \A i \in DOMAIN gpu_ids :
        /\ gpu_ids[i] \in GpuIds
        /\ GPU_can_allocate(G[gpu_ids[i]], task.memory_per_gpu)

\* the return value of self.allocate(task, gpu_ids)
allocate_ok(G, task, gpu_ids) ==
    IF Elastic THEN Pollux_can_allocate(G, task, gpu_ids)
    ELSE Scheduler_can_allocate(G, task, gpu_ids)

\* the loop "for gpu_id in gpu_ids: gpu.allocate(task_id, memory_per_gpu)"
RECURSIVE AllocateEach(_, _, _, _)
AllocateEach(G, t, mem, gpu_ids) ==
    IF gpu_ids = <<>> THEN G
    ELSE AllocateEach([G EXCEPT ![Head(gpu_ids)] = GPU_allocate(@, t, mem)],
                      t, mem, Tail(gpu_ids))

\* a faulty variant: the placement is accepted but nothing is reserved
allocate_without_reserving(G, t, task, gpu_ids) == G

\* a faulty variant: no test first, every listed GPU that fits is taken
allocate_each_that_fits(G, t, task, gpu_ids) ==
    AllocateEach(G, t, task.memory_per_gpu, gpu_ids)

\* the GPU map after self.allocate(task, gpu_ids); t is the task's id
allocate(G, t, task, gpu_ids) ==
    IF allocate_ok(G, task, gpu_ids)
    THEN AllocateEach(G, t, task.memory_per_gpu, gpu_ids)
    ELSE G

RECURSIVE DeallocateEach(_, _, _, _)
DeallocateEach(G, t, mem, gpu_ids) ==
    IF gpu_ids = <<>> THEN G
    ELSE DeallocateEach(
            IF Head(gpu_ids) \in GpuIds
            THEN [G EXCEPT ![Head(gpu_ids)] = GPU_deallocate(@, t, mem)]
            ELSE G,
            t, mem, Tail(gpu_ids))

\* a faulty variant: only the first GPU of the placement is released
deallocate_first_gpu(G, t, task) ==
    DeallocateEach(G, t, task.memory_per_gpu, SubSeq(task.allocated_gpus, 1, 1))

\* Scheduler.deallocate(task)
deallocate(G, t, task) ==
    DeallocateEach(G, t, task.memory_per_gpu, task.allocated_gpus)

-----------------------------------------------------------------------------
(* The state a schedule() call threads through its loop over the tasks:    *)
(* the GPU map it mutates, the allocations dict it builds, its local list  *)
(* of GPUs (first-fit: available_gpus, best-fit: sorted_gpus) and Pollux's *)
(* occupied_gpus set.                                                      *)

\* tasks are the Task objects the call can reach through pending_tasks
NewCall(G, avail) ==
    [gpus |-> G, allocations |-> <<>>, available_gpus |-> avail,
     occupied_gpus |-> {}, tasks |-> sorted_tasks]

\* a faulty variant: the scheduler itself starts the task it has placed
Place_starts_task(st, t, gpu_ids) ==
    [st EXCEPT
        !.gpus = allocate(st.gpus, t, sorted_tasks[t], gpu_ids),
        !.allocations = (t :> gpu_ids) @@ st.allocations,
        !.tasks = [@ EXCEPT ![t] = [@ EXCEPT !.status = "running",
                                             !.allocated_gpus = gpu_ids]]]

\* allocations[task_id] = gpu_ids after a successful self.allocate; no
\* field of a Task is written
Place(st, t, gpu_ids) ==
    [st EXCEPT
        !.gpus = allocate(st.gpus, t, sorted_tasks[t], gpu_ids),
        !.allocations = (t :> gpu_ids) @@ st.allocations]

\* "penalty < best_penalty" with best_penalty starting at float('inf')
\* a faulty variant: a later rack with an equal penalty replaces the best
PenaltyLess_or_equal(penalty, best_penalty) ==
    best_penalty = Infinity \/ penalty <= best_penalty

PenaltyLess(penalty, best_penalty) ==
    best_penalty = Infinity \/ penalty < best_penalty

\* The loop over the racks of rack_aware.py and min_gpu_time.py: cands[i] is
\* the candidate of rack i-1, or <<>> when the rack has none; best is
\* [allocation, penalty], allocation <<>> standing for None.
RECURSIVE BestOverRacks(_, _, _)
BestOverRacks(cands, i, best) ==
    IF i > Len(cands) THEN best
    ELSE IF cands[i] # <<>> /\ PenaltyLess(calculate_penalty(cands[i]), best.penalty)
         THEN BestOverRacks(cands, i + 1,
                  [allocation |-> cands[i],
                   penalty |-> calculate_penalty(cands[i])])
         ELSE BestOverRacks(cands, i + 1, best)

NoBest == [allocation |-> <<>>, penalty |-> Infinity]

-----------------------------------------------------------------------------
(* First-Fit (src/schedulers/first_fit.py) *)

FirstFit_step(st, t) ==
    LET task == sorted_tasks[t]
        allocated_gpus ==
            Prefix(SelectSeq(st.available_gpus,
                       LAMBDA g : GPU_can_allocate(st.gpus[g], task.memory_per_gpu)),
                   task.num_gpus)
    IN  IF task.status # "pending" THEN st
        ELSE IF /\ Len(allocated_gpus) = task.num_gpus
                /\ allocate_ok(st.gpus, task, allocated_gpus)
        THEN [Place(st, t, allocated_gpus) EXCEPT
                 !.available_gpus =
                     SelectSeq(st.available_gpus,
                               LAMBDA g : g \notin Range(allocated_gpus))]
        ELSE st

\* "for task in pending_tasks:" of First-Fit, over the list of GPUs the call
\* state carries
RECURSIVE FirstFit_loop(_, _)
FirstFit_loop(st, pend) ==
    IF pend = <<>> THEN st
    ELSE FirstFit_loop(FirstFit_step(st, Head(pend)), Tail(pend))

-----------------------------------------------------------------------------
(* Best-Fit (src/schedulers/best_fit.py) *)

\* a faulty variant: the emptiest GPUs come first
BestFit_sorted_gpus_ascending(G) ==
    LET avail == Cluster_get_available_gpus(G)
    IN  SortedByKey([i \in 1 .. Len(avail) |->
                        <<G[avail[i]].used_memory, avail[i]>>])

\* sorted(available_gpus, key=get_utilization, reverse=True); all GPUs of a
\* cluster have the same total_memory, so the order of used/total is the
\* order of used_memory.  A reversed sort keeps equal keys in input order.
BestFit_sorted_gpus(G) ==
    LET avail == Cluster_get_available_gpus(G)
    IN  SortedByKey([i \in 1 .. Len(avail) |->
                        <<0 - G[avail[i]].used_memory, avail[i]>>])

BestFit_step(st, t) ==
    LET task == sorted_tasks[t]
        allocated_gpus ==
            Prefix(SelectSeq(st.available_gpus,
                       LAMBDA g : /\ g \notin Claimed(st.allocations)
                                  /\ GPU_can_allocate(st.gpus[g],
                                                      task.memory_per_gpu)),
                   task.num_gpus)
    IN  IF task.status # "pending" THEN st
        ELSE IF /\ Len(allocated_gpus) = task.num_gpus
                /\ allocate_ok(st.gpus, task, allocated_gpus)
        THEN Place(st, t, allocated_gpus)
        ELSE st

-----------------------------------------------------------------------------
(* Rack-Aware (src/schedulers/rack_aware.py) *)

RackAware_rack_candidate(st, task, r) ==
    LET available_gpus_in_rack ==
            SelectSeq(Rack_get_available_gpus(st.gpus, r),
                      LAMBDA g : g \notin Claimed(st.allocations))
        candidate_gpus ==
            Prefix(SelectSeq(available_gpus_in_rack,
                       LAMBDA g : GPU_can_allocate(st.gpus[g], task.memory_per_gpu)),
                   task.num_gpus)
    IN  IF /\ Len(available_gpus_in_rack) >= task.num_gpus
           /\ Len(candidate_gpus) = task.num_gpus
        THEN candidate_gpus
        ELSE <<>>

RackAware_global_candidate(st, task) ==
    LET available_gpus ==
            SelectSeq(Cluster_get_available_gpus(st.gpus),
                      LAMBDA g : g \notin Claimed(st.allocations))
        candidate_gpus ==
            Prefix(SelectSeq(available_gpus,
                       LAMBDA g : GPU_can_allocate(st.gpus[g], task.memory_per_gpu)),
                   task.num_gpus)
    IN  IF Len(candidate_gpus) = task.num_gpus THEN candidate_gpus ELSE <<>>

RackAware_best(st, task) ==
    LET in_rack ==
            BestOverRacks([i \in 1 .. cluster.num_racks |->
                              RackAware_rack_candidate(st, task, i - 1)],
                          1, NoBest)
    IN  IF in_rack.allocation = <<>>
        THEN [in_rack EXCEPT !.allocation = RackAware_global_candidate(st, task)]
        ELSE in_rack

RackAware_step(st, t) ==
    LET task == sorted_tasks[t]
        best_allocation == RackAware_best(st, task).allocation
    IN  IF task.status # "pending" THEN st
        ELSE IF /\ best_allocation # <<>>
                /\ allocate_ok(st.gpus, task, best_allocation)
        THEN Place(st, t, best_allocation)
        ELSE st

\* a faulty variant: the pending list is walked as it was given
RackAware_sorted_tasks_as_given(pend) == pend

\* sorted(pending_tasks, key=lambda t: t.num_gpus)
RackAware_sorted_tasks(pend) ==
    SortedByKey([i \in 1 .. Len(pend) |->
                    <<sorted_tasks[pend[i]].num_gpus, pend[i]>>])

\* "for task in sorted_tasks:" of Rack-Aware
RECURSIVE RackAware_loop(_, _)
RackAware_loop(st, pend) ==
    IF pend = <<>> THEN st
    ELSE RackAware_loop(RackAware_step(st, Head(pend)), Tail(pend))

-----------------------------------------------------------------------------
(* Min-GPU-Time (src/schedulers/min_gpu_time.py) *)

MinGPUTime_rack_candidate(st, task, r) ==
    LET rack_free_gpus ==
            SelectSeq(Rack_get_available_gpus(st.gpus, r),
                      LAMBDA g : g \notin Claimed(st.allocations))
        valid_rack_gpus ==
            SelectSeq(rack_free_gpus,
                      LAMBDA g : GPU_can_allocate(st.gpus[g], task.memory_per_gpu))
    IN  IF Len(valid_rack_gpus) >= task.num_gpus
        THEN Prefix(valid_rack_gpus, task.num_gpus)
        ELSE <<>>

MinGPUTime_global_candidate(st, task) ==
    LET all_free_gpus ==
            SelectSeq(Cluster_get_available_gpus(st.gpus),
                      LAMBDA g : g \notin Claimed(st.allocations))
        valid_global_gpus ==
            SelectSeq(all_free_gpus,
                      LAMBDA g : GPU_can_allocate(st.gpus[g], task.memory_per_gpu))
    IN  IF Len(valid_global_gpus) >= task.num_gpus
        THEN Prefix(valid_global_gpus, task.num_gpus)
        ELSE <<>>

\* step 1 of the loop body: [allocation, penalty] of the best candidate
MinGPUTime_best(st, task) ==
    LET in_rack ==
            BestOverRacks([i \in 1 .. cluster.num_racks |->
                              MinGPUTime_rack_candidate(st, task, i - 1)],
                          1, NoBest)
        candidate == MinGPUTime_global_candidate(st, task)
    IN  IF in_rack.allocation = <<>> /\ candidate # <<>>
        THEN [allocation |-> candidate, penalty |-> calculate_penalty(candidate)]
        ELSE in_rack

\* a faulty variant: a penalty equal to the threshold is refused
is_good_placement_strict(min_penalty) ==
    min_penalty < scheduler.patience_threshold

is_good_placement(min_penalty) == min_penalty <= scheduler.patience_threshold

\* a faulty variant: a wait equal to starvation_limit already forces
is_starving_at_limit(task, now) ==
    now - task.submission_time >= scheduler.starvation_limit

is_starving(task, now) ==
    now - task.submission_time > scheduler.starvation_limit

\* a faulty variant: a placement is made only when it is both good and forced
MinGPUTime_decide_needs_both(best, task, now) ==
    /\ best.allocation # <<>>
    /\ is_good_placement(best.penalty) /\ is_starving(task, now)

\* step 2 of the loop body: the decision
MinGPUTime_decide(best, task, now) ==
    /\ best.allocation # <<>>
    /\ is_good_placement(best.penalty) \/ is_starving(task, now)

\* a faulty variant: the status of the task is not looked at
MinGPUTime_step_any_status(st, t, now) ==
    LET task == sorted_tasks[t]
        best == MinGPUTime_best(st, task)
    IN  IF /\ MinGPUTime_decide(best, task, now)
           /\ allocate_ok(st.gpus, task, best.allocation)
        THEN Place(st, t, best.allocation)
        ELSE st

MinGPUTime_step(st, t, now) ==
    LET task == sorted_tasks[t]
        best == MinGPUTime_best(st, task)
    IN  IF task.status # "pending" THEN st
        ELSE IF /\ MinGPUTime_decide(best, task, now)
                /\ allocate_ok(st.gpus, task, best.allocation)
        THEN Place(st, t, best.allocation)
        ELSE st

-----------------------------------------------------------------------------
(* Pollux (src/schedulers/pollux.py) *)

\* A score n^alpha * num / den, kept as [n, num, den].  alpha is 0, 0.5 or
\* 1.0 (in tenths); for 0.5 both sides are squared.
Score(n, num, den) == [n |-> n, num |-> num, den |-> den]

MinusInfinity == [n |-> 0, num |-> 0, den |-> 0]

\* a faulty variant: a later candidate with an equal score replaces the best
ScoreGreater_or_equal(a, b) ==
    IF b = MinusInfinity THEN TRUE
    ELSE IF scheduler.alpha = 0 THEN a.num * b.den >= b.num * a.den
    ELSE IF scheduler.alpha = One THEN a.n * a.num * b.den >= b.n * b.num * a.den
    ELSE a.n * (a.num * b.den) * (a.num * b.den)
             >= b.n * (b.num * a.den) * (b.num * a.den)

ScoreGreater(a, b) ==
    IF b = MinusInfinity THEN TRUE
    ELSE IF scheduler.alpha = 0 THEN a.num * b.den > b.num * a.den
    ELSE IF scheduler.alpha = One THEN a.n * a.num * b.den > b.n * b.num * a.den
    ELSE a.n * (a.num * b.den) * (a.num * b.den)
             > b.n * (b.num * a.den) * (b.num * a.den)

\* available_gpus: every GPU not occupied in this call that can take the task
Pollux_available_gpus(st, task) ==
    SelectSeq(get_all_gpus,
              LAMBDA g : /\ g \notin st.occupied_gpus
                         /\ GPU_can_allocate(st.gpus[g], task.memory_per_gpu))

Pollux_rack_free(st, task, r) ==
    SelectSeq(Rack_get_available_gpus(st.gpus, r),
              LAMBDA g : /\ g \notin st.occupied_gpus
                         /\ GPU_can_allocate(st.gpus[g], task.memory_per_gpu))

\* the placement of width n: the first rack with n free GPUs, else the first
\* n of available_gpus
Pollux_placement(st, task, n) ==
    LET fits == {r \in RackIds : Len(Pollux_rack_free(st, task, r)) >= n}
    IN  IF fits # {}
        THEN Prefix(Pollux_rack_free(st, task, SetMin(fits)), n)
        ELSE Prefix(Pollux_available_gpus(st, task), n)

\* a faulty variant: the width does not enter the score
Pollux_score_ignores_width(n, current_allocation) ==
    Score(1, One, Max2(One, calculate_penalty(current_allocation)))

Pollux_score(n, current_allocation) ==
    Score(n, One, Max2(One, calculate_penalty(current_allocation)))

\* the loop over candidates_n; best is [n, allocation, score]
RECURSIVE Pollux_best(_, _, _, _, _)
Pollux_best(st, task, n, max_n, best) ==
    IF n > max_n THEN best
    ELSE LET current_allocation == Pollux_placement(st, task, n)
             score == Pollux_score(n, current_allocation)
         IN  IF ScoreGreater(score, best.score)
             THEN Pollux_best(st, task, n + 1, max_n,
                      [n |-> n, allocation |-> current_allocation,
                       score |-> score])
             ELSE Pollux_best(st, task, n + 1, max_n, best)

NoBestN == [n |-> 0 - 1, allocation |-> <<>>, score |-> MinusInfinity]

\* a faulty variant: the widths tried are not capped by task.num_gpus
Pollux_choice_any_width(st, task) ==
    LET available_gpus == Pollux_available_gpus(st, task)
    IN  IF Len(available_gpus) < 1 THEN NoBestN
        ELSE Pollux_best(st, task, 1, Len(available_gpus), NoBestN)

Pollux_choice(st, task) ==
    LET available_gpus == Pollux_available_gpus(st, task)
    IN  IF Len(available_gpus) < 1 THEN NoBestN
        ELSE Pollux_best(st, task, 1,
                         Min2(task.num_gpus, Len(available_gpus)), NoBestN)

Pollux_step(st, t) ==
    LET task == sorted_tasks[t]
        best == Pollux_choice(st, task)
    IN  IF task.status # "pending" THEN st
        ELSE IF /\ best.allocation # <<>>
                /\ allocate_ok(st.gpus, task, best.allocation)
        THEN [Place(st, t, best.allocation) EXCEPT
                 !.occupied_gpus = @ \cup Range(best.allocation)]
        ELSE st

-----------------------------------------------------------------------------
(* Pollux-Patient (src/schedulers/pollux_patient.py) *)

\* default_simulator_config.sharing_penalty_map (src/config/config.py)
default_sharing_penalty_map == (1 :> 10) @@ (2 :> 9) @@ (3 :> 8)

\* __init__ overwrites its patience_threshold argument with 0.8
PolluxPatient_patience_threshold == 8

_get_sharing_penalty(G, g) ==
    IF g \notin GpuIds THEN One
    ELSE LET new_count == Len(G[g].running_tasks) + 1
             m == default_sharing_penalty_map
         IN  IF new_count \in DOMAIN m THEN m[new_count]
             ELSE m[SetMax(DOMAIN m)]

\* sorted(ids, key=lambda g: -self._get_sharing_penalty(g))
PolluxPatient_sorted(G, ids) ==
    SortedByKey([i \in 1 .. Len(ids) |->
                    <<0 - _get_sharing_penalty(G, ids[i]), ids[i]>>])

\* candidates = rack_candidates + [global_candidate] for width n
PolluxPatient_candidates(st, task, n) ==
    LET rack_gpus(r) == Pollux_rack_free(st, task, r)
        fits == SelectSeq([i \in 1 .. cluster.num_racks |-> i - 1],
                          LAMBDA r : Len(rack_gpus(r)) >= n)
        rack_candidates ==
            [i \in 1 .. Len(fits) |->
                Prefix(PolluxPatient_sorted(st.gpus, rack_gpus(fits[i])), n)]
        global_candidate ==
            Prefix(PolluxPatient_sorted(st.gpus, Pollux_available_gpus(st, task)), n)
    IN  rack_candidates \o <<global_candidate>>

\* sum of the predicted sharing efficiencies of alloc (tenths)
PolluxPatient_sum_eff(G, alloc) ==
    SeqSum([i \in 1 .. Len(alloc) |-> _get_sharing_penalty(G, alloc[i])])

\* score = n^alpha / total_cost, total_cost = topo * (1 / (sum_eff / len)):
\* n^alpha * sum_eff / (len * topo)
PolluxPatient_score(G, n, alloc) ==
    Score(n, PolluxPatient_sum_eff(G, alloc),
          Len(alloc) * calculate_penalty(alloc))

\* the loop "for alloc in candidates" for one n
RECURSIVE PolluxPatient_over_candidates(_, _, _, _, _)
PolluxPatient_over_candidates(G, n, cands, i, best) ==
    IF i > Len(cands) THEN best
    ELSE LET score == PolluxPatient_score(G, n, cands[i])
         IN  IF ScoreGreater(score, best.score)
             THEN PolluxPatient_over_candidates(G, n, cands, i + 1,
                      [n |-> n, allocation |-> cands[i], score |-> score])
             ELSE PolluxPatient_over_candidates(G, n, cands, i + 1, best)

RECURSIVE PolluxPatient_best(_, _, _, _, _)
PolluxPatient_best(st, task, n, max_n, best) ==
    IF n > max_n THEN best
    ELSE PolluxPatient_best(st, task, n + 1, max_n,
             PolluxPatient_over_candidates(st.gpus, n,
                 PolluxPatient_candidates(st, task, n), 1, best))

PolluxPatient_choice(st, task) ==
    LET available_gpus == Pollux_available_gpus(st, task)
    IN  IF Len(available_gpus) < 1 THEN NoBestN
        ELSE PolluxPatient_best(st, task, 1,
                 Min2(task.num_gpus, Len(available_gpus)), NoBestN)

\* current_efficiency = 1 / best_total_penalty >= patience_threshold, with
\* best_total_penalty = score.den / score.num
is_efficient_enough(score) ==
    One * score.num >= PolluxPatient_patience_threshold * score.den

\* a faulty variant: whatever was found is placed
PolluxPatient_decide_whatever(best, task, now) == best.allocation # <<>>

PolluxPatient_decide(best, task, now) ==
    /\ best.allocation # <<>>
    /\ is_efficient_enough(best.score) \/ is_starving(task, now)

PolluxPatient_step(st, t, now) ==
    LET task == sorted_tasks[t]
        best == PolluxPatient_choice(st, task)
    IN  IF task.status # "pending" THEN st
        ELSE IF /\ PolluxPatient_decide(best, task, now)
                /\ allocate_ok(st.gpus, task, best.allocation)
        THEN [Place(st, t, best.allocation) EXCEPT
                 !.occupied_gpus = @ \cup Range(best.allocation)]
        ELSE st

-----------------------------------------------------------------------------
(* scheduler.schedule(pending_tasks, current_time), dispatched on the      *)
(* scheduler's class                                                       *)

Step(st, t, now) ==
    CASE scheduler.kind = "first_fit"      -> FirstFit_step(st, t)
      [] scheduler.kind = "best_fit"       -> BestFit_step(st, t)
      [] scheduler.kind = "rack_aware"     -> RackAware_step(st, t)
      [] scheduler.kind = "min_gpu_time"   -> MinGPUTime_step(st, t, now)
      [] scheduler.kind = "pollux"         -> Pollux_step(st, t)
      [] scheduler.kind = "pollux_patient" -> PolluxPatient_step(st, t, now)

\* "for task in pending_tasks:" (rack-aware: "for task in sorted_tasks:")
RECURSIVE ScheduleLoop(_, _, _)
ScheduleLoop(st, pend, now) ==
    IF pend = <<>> THEN st
    ELSE ScheduleLoop(Step(st, Head(pend), now), Tail(pend), now)

\* the state of the call when schedule() returns: .gpus and .allocations
schedule(G, pend, now) ==
    CASE scheduler.kind = "first_fit" ->
            ScheduleLoop(NewCall(G, Cluster_get_available_gpus(G)), pend, now)
      [] scheduler.kind = "best_fit" ->
            ScheduleLoop(NewCall(G, BestFit_sorted_gpus(G)), pend, now)
      [] scheduler.kind = "rack_aware" ->
            ScheduleLoop(NewCall(G, <<>>), RackAware_sorted_tasks(pend), now)
      [] OTHER ->
            ScheduleLoop(NewCall(G, <<>>), pend, now)

-----------------------------------------------------------------------------
(* Task (src/core/task.py) *)

NewTask(num_gpus, memory_per_gpu, submission_time, estimated_duration) ==
    [num_gpus |-> num_gpus, memory_per_gpu |-> memory_per_gpu,
     submission_time |-> submission_time,
     estimated_duration |-> estimated_duration,
     status |-> "pending", start_time |-> None, completion_time |-> None,
     allocated_gpus |-> <<>>, actual_duration |-> None]

Task_start(task, now, allocated_gpus) ==
    [task EXCEPT !.status = "running", !.start_time = now,
                 !.allocated_gpus = allocated_gpus]

\* a faulty variant: the duration is counted from the submission
Task_complete_counts_wait(task, now) ==
    [task EXCEPT !.status = "completed", !.completion_time = now,
                 !.actual_duration = now - task.submission_time]

Task_complete(task, now) ==
    [task EXCEPT !.status = "completed", !.completion_time = now,
                 !.actual_duration = IF task.start_time # None
                                     THEN now - task.start_time ELSE @]

Task_mark_starved(task) == [task EXCEPT !.status = "starved"]

Task_get_jct(task) ==
    IF task.completion_time # None /\ task.submission_time # None
    THEN task.completion_time - task.submission_time
    ELSE None

Task_get_wait_time(task) ==
    IF task.start_time # None THEN task.start_time - task.submission_time
    ELSE None

-----------------------------------------------------------------------------
(* Simulator (src/simulator.py) *)

\* a < b where b may be float('inf')
Less(a, b) == b = Infinity \/ a < b

\* a > b where b may be float('inf')
Greater(a, b) == b # Infinity /\ a > b

TaskIds == 1 .. Len(sorted_tasks)

\* a faulty variant: co-resident tasks do not change the duration
_get_gpu_sharing_penalty_ignores_count(task_count) == One

_get_gpu_sharing_penalty(task_count) ==
    LET count == Max2(1, task_count)
        fn == config.sharing_penalty_fn
        penalty_map == config.sharing_penalty_map
        value == IF fn # <<>> THEN fn[Min2(count, Len(fn))]
                 ELSE IF count \in DOMAIN penalty_map THEN penalty_map[count]
                 ELSE IF DOMAIN penalty_map # {}
                      THEN penalty_map[SetMax(DOMAIN penalty_map)]
                 ELSE One
    IN  Max2(config.sharing_penalty_floor, Min2(One, value))

\* a faulty variant: the aggregation is not looked at
_get_task_sharing_penalty_always_min(G, task) ==
    LET ids == SelectSeq(task.allocated_gpus, LAMBDA g : g \in GpuIds)
        penalties == [i \in 1 .. Len(ids) |->
                         _get_gpu_sharing_penalty(Len(G[ids[i]].running_tasks))]
    IN  IF penalties = <<>> THEN [num |-> One, den |-> 1]
        ELSE [num |-> SetMin(Range(penalties)), den |-> 1]

\* The sharing penalty of a task as a fraction num/den of tenths: the minimum
\* of the per-GPU values, or their sum over their number for "average".
_get_task_sharing_penalty(G, task) ==
    LET ids == SelectSeq(task.allocated_gpus, LAMBDA g : g \in GpuIds)
        penalties == [i \in 1 .. Len(ids) |->
                         _get_gpu_sharing_penalty(Len(G[ids[i]].running_tasks))]
    IN  IF penalties = <<>> THEN [num |-> One, den |-> 1]
        ELSE IF config.sharing_penalty_aggregation = "average"
        THEN [num |-> SeqSum(penalties), den |-> Len(penalties)]
        ELSE [num |-> SetMin(Range(penalties)), den |-> 1]

\* a faulty variant: the placement penalty does not lengthen the task
is_finished_ignores_placement(G, task, now) ==
    LET elapsed == now - task.start_time
        sharing_penalty == _get_task_sharing_penalty(G, task)
    IN  elapsed * One * sharing_penalty.den
            >= task.estimated_duration * sharing_penalty.num

\* elapsed >= estimated_duration * placement_penalty * sharing_penalty
is_finished(G, task, now) ==
    LET elapsed == now - task.start_time
        placement_penalty == calculate_penalty(task.allocated_gpus)
        sharing_penalty == _get_task_sharing_penalty(G, task)
    IN  elapsed * One * One * sharing_penalty.den
            >= task.estimated_duration * placement_penalty * sharing_penalty.num

\* the body of "for task in running_tasks:" for task t; sim is
\* [tasks, gpus, recorded]
UpdateTask(sim, t, now) ==
    LET task == sim.tasks[t]
    IN  IF /\ task.start_time # None
           /\ task.allocated_gpus # <<>>
           /\ is_finished(sim.gpus, task, now)
        THEN [tasks |-> [sim.tasks EXCEPT ![t] = Task_complete(task, now)],
              gpus |-> deallocate(sim.gpus, t, Task_complete(task, now)),
              recorded |-> Append(sim.recorded, t)]
        ELSE sim

RECURSIVE UpdateLoop(_, _, _)
UpdateLoop(sim, running, now) ==
    IF running = <<>> THEN sim
    ELSE UpdateLoop(UpdateTask(sim, Head(running), now), Tail(running), now)

\* pending_tasks of this tick
PendingNow ==
    SelectSeq([i \in 1 .. Len(sorted_tasks) |-> i],
              LAMBDA t : /\ sorted_tasks[t].submission_time <= current_time
                         /\ sorted_tasks[t].status = "pending")

RunningNow ==
    SelectSeq([i \in 1 .. Len(sorted_tasks) |-> i],
              LAMBDA t : sorted_tasks[t].status = "running")

\* a faulty variant: a wait equal to the threshold already starves
Starves_at_threshold(t) ==
    /\ config.starvation_threshold # Infinity
    /\ current_time - sorted_tasks[t].submission_time
          >= config.starvation_threshold

\* a faulty variant: no wait is long enough
Starves_never(t) == FALSE

Starves(t) ==
    Greater(current_time - sorted_tasks[t].submission_time,
            config.starvation_threshold)

Horizon == 8

\* top of the loop: the two list comprehensions and the starvation check
LoopTop(horizon) ==
    /\ pc = "sweep"
    /\ Less(current_time, config.max_time)
    /\ current_time <= horizon
    /\ pending_tasks' = PendingNow
    /\ running_tasks' = RunningNow
    /\ sorted_tasks' =
          [t \in TaskIds |->
              IF t \in Range(PendingNow) /\ Starves(t)
              THEN Task_mark_starved(sorted_tasks[t])
              ELSE sorted_tasks[t]]
    /\ metrics' = [metrics EXCEPT !.task_metrics =
                      @ \o SelectSeq(PendingNow, Starves)]
    /\ pc' = "schedule"
    /\ UNCHANGED <<cluster, gpus, scheduler, config, current_time,
                   allocations, history>>

StarvationSweep == LoopTop(Horizon)

\* allocations = self.scheduler.schedule(pending_tasks, self.current_time)
Schedule ==
    /\ pc = "schedule"
    /\ LET call == schedule(gpus, pending_tasks, current_time)
       IN  /\ gpus' = call.gpus
           /\ allocations' = call.allocations
           /\ sorted_tasks' = call.tasks
           /\ history' = Append(history,
                             [now |-> current_time, pending |-> pending_tasks,
                              statuses |-> [t \in TaskIds |-> sorted_tasks[t].status],
                              before |-> gpus, allocations |-> call.allocations])
    /\ pc' = "start"
    /\ UNCHANGED <<cluster, scheduler, config, current_time,
                   pending_tasks, running_tasks, metrics>>

\* for task_id, gpu_ids in allocations.items(): task.start(...)
StartTasks ==
    /\ pc = "start"
    /\ sorted_tasks' =
          [t \in TaskIds |->
              IF t \in DOMAIN allocations /\ t \in Range(pending_tasks)
              THEN Task_start(sorted_tasks[t], current_time, allocations[t])
              ELSE sorted_tasks[t]]
    /\ pc' = "update"
    /\ UNCHANGED <<cluster, gpus, scheduler, config, current_time,
                   pending_tasks, running_tasks, allocations, metrics, history>>

\* for task in running_tasks: complete and release the finished ones
UpdateRunning ==
    /\ pc = "update"
    /\ LET sim == UpdateLoop([tasks |-> sorted_tasks, gpus |-> gpus,
                              recorded |-> metrics.task_metrics],
                             running_tasks, current_time)
       IN  /\ sorted_tasks' = sim.tasks
           /\ gpus' = sim.gpus
           /\ metrics' = [metrics EXCEPT !.task_metrics = sim.recorded]
    /\ pc' = "account"
    /\ UNCHANGED <<cluster, scheduler, config, current_time, pending_tasks,
                   running_tasks, allocations, history>>

all_done ==
    \A t \in TaskIds : sorted_tasks[t].status \in {"completed", "starved"}

\* GPU time, total GPU time, the all_done test and the advance of the clock
Account ==
    /\ pc = "account"
    /\ gpus' = [g \in DOMAIN gpus |->
                   IF Len(gpus[g].running_tasks) > 0
                   THEN GPU_add_time(gpus[g], config.time_step)
                   ELSE gpus[g]]
    /\ metrics' = [metrics EXCEPT !.total_gpu_time = get_total_time(gpus')]
    /\ IF all_done
       THEN pc' = "exit" /\ UNCHANGED current_time
       ELSE pc' = "sweep" /\ current_time' = current_time + config.time_step
    /\ UNCHANGED <<cluster, scheduler, config, sorted_tasks, pending_tasks,
                   running_tasks, allocations, history>>

\* after the loop: the remaining PENDING tasks are marked starved; return
Finish ==
    /\ \/ pc = "exit"
       \/ pc = "sweep" /\ ~Less(current_time, config.max_time)
    /\ sorted_tasks' =
          [t \in TaskIds |->
              IF sorted_tasks[t].status = "pending"
              THEN Task_mark_starved(sorted_tasks[t])
              ELSE sorted_tasks[t]]
    /\ metrics' = [metrics EXCEPT !.task_metrics =
                      @ \o SelectSeq([i \in 1 .. Len(sorted_tasks) |-> i],
                               LAMBDA t : sorted_tasks[t].status = "pending")]
    /\ pc' = "done"
    /\ UNCHANGED <<cluster, gpus, scheduler, config, current_time,
                   pending_tasks, running_tasks, allocations, history>>

Next ==
    \/ StarvationSweep
    \/ Schedule
    \/ StartTasks
    \/ UpdateRunning
    \/ Account
    \/ Finish

-----------------------------------------------------------------------------
(* Inputs of a run *)

\* (num_gpus, memory_per_gpu) of a job
JobShapes == {<<1, 1>>, <<2, 1>>, <<2, 2>>, <<3, 1>>}

SubmissionTimes == {0, 1}

Durations == {1, 2}

Jobs ==
    {NewTask(s[1], s[2], sub, dur) :
        s \in JobShapes, sub \in SubmissionTimes, dur \in Durations}

\* sorted(tasks, key=lambda t: t.submission_time)
SortBySubmission(tasks) ==
    SortedByKey([i \in 1 .. Len(tasks) |-> <<tasks[i].submission_time, tasks[i]>>])

Workloads == {SortBySubmission(w) : w \in [1 .. NumTasks -> Jobs]}

ClusterConfigs ==
    {[num_racks |-> 2, gpus_per_rack |-> 2, gpu_memory |-> 2,
      intra_rack_penalty |-> 12, inter_rack_penalty |-> 15]}

SchedulerKinds ==
    {"first_fit", "best_fit", "rack_aware", "min_gpu_time", "pollux",
     "pollux_patient"}

Schedulers ==
    {[kind |-> k, patience_threshold |-> 11, starvation_limit |-> 1,
      alpha |-> 5] : k \in SchedulerKinds}

SimulatorConfigs ==
    {[max_time |-> m[1], starvation_threshold |-> m[2], time_step |-> 1,
      sharing_penalty_map |-> default_sharing_penalty_map,
      sharing_penalty_floor |-> 5, sharing_penalty_fn |-> <<>>,
      sharing_penalty_aggregation |-> "min"] :
        m \in {<<Infinity, 2>>, <<4, Infinity>>}}

InitRun(c, s, cf, w) ==
    /\ cluster = c
    /\ gpus = NewGpuMap(c)
    /\ scheduler = s
    /\ config = cf
    /\ sorted_tasks = w
    /\ current_time = 0
    /\ pc = "sweep"
    /\ pending_tasks = <<>>
    /\ running_tasks = <<>>
    /\ allocations = <<>>
    /\ metrics = [total_gpu_time |-> 0, task_metrics |-> <<>>]
    /\ history = <<>>

Init ==
    \E c \in ClusterConfigs, s \in Schedulers, cf \in SimulatorConfigs,
       w \in Workloads : InitRun(c, s, cf, w)

Spec == Init /\ [][Next]_vars

-----------------------------------------------------------------------------
(* Runs of Min-GPU-Time over its parameters: patience below and at the     *)
(* intra-rack penalty, starvation_limit below the simulator's              *)
(* starvation_threshold or equal to it, and a clock that advances by one   *)
(* or by two.                                                              *)

PatientSchedulers ==
    {[kind |-> "min_gpu_time", patience_threshold |-> p,
      starvation_limit |-> l, alpha |-> 5] : p \in {11, 12}, l \in {1, 2}}

PatientConfigs ==
    {[max_time |-> Infinity, starvation_threshold |-> th, time_step |-> step,
      sharing_penalty_map |-> default_sharing_penalty_map,
      sharing_penalty_floor |-> 5, sharing_penalty_fn |-> <<>>,
      sharing_penalty_aggregation |-> "min"] :
        th \in {2, 3}, step \in {1, 2}}

InitPatient ==
    \E c \in ClusterConfigs, s \in PatientSchedulers, cf \in PatientConfigs,
       w \in Workloads : InitRun(c, s, cf, w)

SpecPatient == InitPatient /\ [][Next]_vars

-----------------------------------------------------------------------------
(* Runs in which GPUs are shared and sharing changes the effective         *)
(* duration: one rack of two GPUs, a sharing map {1: 1.0, 2: 0.5}, both    *)
(* aggregations, and tasks whose estimated_duration may be 0.              *)

SharingDurations == {0, 1, 2}

SharingJobs ==
    {NewTask(s[1], s[2], sub, dur) :
        s \in {<<1, 1>>, <<2, 1>>, <<2, 2>>}, sub \in SubmissionTimes,
        dur \in SharingDurations}

SharingWorkloads == {SortBySubmission(w) : w \in [1 .. NumTasks -> SharingJobs]}

SharingClusters ==
    {[num_racks |-> 1, gpus_per_rack |-> 2, gpu_memory |-> 2,
      intra_rack_penalty |-> 12, inter_rack_penalty |-> 15]}

SharingSchedulers ==
    {[kind |-> k, patience_threshold |-> 11, starvation_limit |-> 1,
      alpha |-> 5] : k \in {"first_fit", "best_fit"}}

SharingConfigs ==
    {[max_time |-> Infinity, starvation_threshold |-> 3, time_step |-> 1,
      sharing_penalty_map |-> <<10, 5>>,
      sharing_penalty_floor |-> 5, sharing_penalty_fn |-> <<>>,
      sharing_penalty_aggregation |-> agg] : agg \in {"min", "average"}}

InitSharing ==
    \E c \in SharingClusters, s \in SharingSchedulers, cf \in SharingConfigs,
       w \in SharingWorkloads : InitRun(c, s, cf, w)

SpecSharing == InitSharing /\ [][Next]_vars

-----------------------------------------------------------------------------
(* Runs with jobs that cannot be placed: on 2 racks x 1 GPU of 2 GB, jobs  *)
(* asking for 3 GPUs or for 3 GB per GPU next to jobs that fit, under the  *)
(* six schedulers.                                                         *)

UnplaceableJobs ==
    {NewTask(s[1], s[2], sub, 1) :
        s \in {<<1, 1>>, <<3, 1>>, <<1, 3>>}, sub \in SubmissionTimes}

UnplaceableWorkloads ==
    {SortBySubmission(w) : w \in [1 .. NumTasks -> UnplaceableJobs]}

UnplaceableClusters ==
    {[num_racks |-> 2, gpus_per_rack |-> 1, gpu_memory |-> 2,
      intra_rack_penalty |-> 12, inter_rack_penalty |-> 15]}

UnplaceableConfigs ==
    {[max_time |-> m[1], starvation_threshold |-> m[2], time_step |-> m[3],
      sharing_penalty_map |-> default_sharing_penalty_map,
      sharing_penalty_floor |-> 5, sharing_penalty_fn |-> <<>>,
      sharing_penalty_aggregation |-> "min"] :
        m \in {<<Infinity, 2, 1>>, <<Infinity, 2, 2>>, <<4, Infinity, 1>>,
               <<4, 2, 1>>}}

InitUnplaceable ==
    \E c \in UnplaceableClusters, s \in Schedulers,
       cf \in UnplaceableConfigs, w \in UnplaceableWorkloads :
        InitRun(c, s, cf, w)

SpecUnplaceable == InitUnplaceable /\ [][Next]_vars

-----------------------------------------------------------------------------
(* Runs without a time limit: max_time = +infinity, a starvation_threshold *)
(* of 2 or 3, a clock that advances by one or by two, jobs that fit next   *)
(* to jobs that can never be placed, under the six schedulers.  run() is   *)
(* sequential code whose statements all return (every inner loop is a for  *)
(* over a finite list): while run() has not returned, control moves on to  *)
(* the next statement.  This is weak fairness of the steps of Next, which  *)
(* all change pc and of which one can be taken wherever LoopStep can; it   *)
(* is written on pc alone.                                                 *)

TerminatingConfigs ==
    {[max_time |-> Infinity, starvation_threshold |-> th, time_step |-> step,
      sharing_penalty_map |-> default_sharing_penalty_map,
      sharing_penalty_floor |-> 5, sharing_penalty_fn |-> <<>>,
      sharing_penalty_aggregation |-> "min"] :
        th \in {2, 3}, step \in {1, 2}}

InitTerminating ==
    \E c \in UnplaceableClusters, s \in Schedulers,
       cf \in TerminatingConfigs, w \in UnplaceableWorkloads :
        InitRun(c, s, cf, w)

Positions ==
    {"sweep", "schedule", "start", "update", "account", "exit", "done"}

\* control leaves the current position; the model follows the clock up to
\* Horizon
LoopStep ==
    /\ pc # "done"
    /\ pc = "sweep" /\ Less(current_time, config.max_time)
          => current_time <= Horizon
    /\ pc' \in Positions \ {pc}

SpecTerminating == InitTerminating /\ [][Next]_vars /\ WF_pc(LoopStep)

-----------------------------------------------------------------------------
(* Runs with jobs whose memory_per_gpu is 0: Task checks none of its       *)
(* fields, and 0 is a non-negative number.                                 *)

ZeroMemoryJobs ==
    {NewTask(n, mem, sub, 1) :
        n \in {1, 2}, mem \in {0, 1}, sub \in SubmissionTimes}

ZeroMemoryWorkloads ==
    {SortBySubmission(w) : w \in [1 .. NumTasks -> ZeroMemoryJobs]}

InitZeroMemory ==
    \E c \in UnplaceableClusters, s \in Schedulers, cf \in SimulatorConfigs,
       w \in ZeroMemoryWorkloads : InitRun(c, s, cf, w)

SpecZeroMemory == InitZeroMemory /\ [][Next]_vars

-----------------------------------------------------------------------------
(* One schedule() call of First-Fit, Best-Fit or Rack-Aware on a cluster   *)
(* of 2 racks x 2 GPUs of 2 GB that earlier ticks have filled in any way:  *)
(* a GPU with u GB in use holds one running single-GPU job of u GB.  The   *)
(* pending list holds NumTasks jobs of 1 to 3 GPUs and 0 to 2 GB per GPU,  *)
(* in the order of sorted_tasks.  history holds the call.                  *)

CallOccupancies(c) == [1 .. (c.num_racks * c.gpus_per_rack) -> 0 .. c.gpu_memory]

\* the GPUs that hold a job, in flat order
OccupiedGpus(u) ==
    SelectSeq([g \in DOMAIN u |-> g], LAMBDA g : u[g] > 0)

\* the running jobs, one per occupied GPU, started at time 0
ResidentTasks(u) ==
    [i \in 1 .. Len(OccupiedGpus(u)) |->
        Task_start(NewTask(1, u[OccupiedGpus(u)[i]], 0, 8), 0,
                   <<OccupiedGpus(u)[i]>>)]

\* the GPU map after GPU.allocate of each running job on its GPU
OccupiedGpuMap(c, u) ==
    [g \in DOMAIN u |->
        IF u[g] > 0
        THEN GPU_allocate(NewGPU(c.gpu_memory),
                          Cardinality({h \in 1 .. g : u[h] > 0}), u[g])
        ELSE NewGPU(c.gpu_memory)]

\* (num_gpus, memory_per_gpu) of a pending job
CallShapes == {<<1, 0>>, <<1, 1>>, <<1, 2>>, <<2, 1>>, <<2, 2>>, <<3, 1>>}

CallJobs == {NewTask(s[1], s[2], 0, 1) : s \in CallShapes}

CallQueues == [1 .. NumTasks -> CallJobs]

CallSchedulers ==
    {s \in Schedulers : s.kind \in {"first_fit", "best_fit", "rack_aware"}}

InitCall ==
    \E c \in ClusterConfigs, s \in CallSchedulers, cf \in SimulatorConfigs,
       q \in CallQueues :
      \E u \in CallOccupancies(c) :
        /\ cf.max_time = Infinity
        /\ cluster = c
        /\ gpus = OccupiedGpuMap(c, u)
        /\ scheduler = s
        /\ config = cf
        /\ sorted_tasks = ResidentTasks(u) \o q
        /\ current_time = 1
        /\ pc = "schedule"
        /\ pending_tasks = [i \in 1 .. NumTasks |-> Len(ResidentTasks(u)) + i]
        /\ running_tasks = [i \in 1 .. Len(ResidentTasks(u)) |-> i]
        /\ allocations = <<>>
        /\ metrics = [total_gpu_time |-> 0, task_metrics |-> <<>>]
        /\ history = <<>>

NextCall == Schedule

SpecCall == InitCall /\ [][NextCall]_vars

-----------------------------------------------------------------------------
(* One schedule() call of Min-GPU-Time on the clusters, occupancies and    *)
(* pending lists of SpecCall, in any order of the pending list, with a     *)
(* patience_threshold below the inter-rack penalty (1.2), equal to it      *)
(* (1.5) and above it (2.0).  The jobs have waited 1 s, which is not more  *)
(* than starvation_limit.                                                  *)

CompareSchedulers ==
    {[kind |-> "min_gpu_time", patience_threshold |-> p,
      starvation_limit |-> 1, alpha |-> 5] : p \in {12, 15, 20}}

InitCompare ==
    \E c \in ClusterConfigs, s \in CompareSchedulers, cf \in SimulatorConfigs,
       q \in CallQueues :
      \E u \in CallOccupancies(c) :
        /\ cf.max_time = Infinity
        /\ cluster = c
        /\ gpus = OccupiedGpuMap(c, u)
        /\ scheduler = s
        /\ config = cf
        /\ sorted_tasks = ResidentTasks(u) \o q
        /\ current_time = 1
        /\ pc = "schedule"
        /\ pending_tasks = [i \in 1 .. NumTasks |-> Len(ResidentTasks(u)) + i]
        /\ running_tasks = [i \in 1 .. Len(ResidentTasks(u)) |-> i]
        /\ allocations = <<>>
        /\ metrics = [total_gpu_time |-> 0, task_metrics |-> <<>>]
        /\ history = <<>>

SpecCompare == InitCompare /\ [][NextCall]_vars

-----------------------------------------------------------------------------
(* One schedule() call of Pollux or Pollux-Patient on a cluster of 2 racks *)
(* x 2 GPUs of 3 GB on which earlier ticks have left 0, 1 or 2 running     *)
(* single-GPU jobs of 1 GB per GPU.  The penalties are 1.2/1.5 or the      *)
(* defaults of ClusterConfig, 1.4/2.1; Pollux has alpha 0, 0.5 or 1;      *)
(* Pollux-Patient has alpha 0.5 or 1, is constructed with                  *)
(* patience_threshold 0.8 or 0.9 and starvation_limit 1, and is called at  *)
(* time 1 or 2 for jobs submitted at 0.  history holds the call.           *)
(* Pollux-Patient with alpha 1 is called on the 1.2/1.5 cluster only: on   *)
(* the 1.4/2.1 cluster the scores 2 / (1.4 / 0.8) and 3 / (2.1 / 0.8) are  *)
(* equal as fractions, and which of them the code finds greater rests on   *)
(* the rounding of the float mean of the efficiencies.                     *)

ElasticClusters ==
    {[num_racks |-> 2, gpus_per_rack |-> 2, gpu_memory |-> 3,
      intra_rack_penalty |-> p[1], inter_rack_penalty |-> p[2]] :
        p \in {<<12, 15>>, <<14, 21>>}}

\* the number of running jobs on each GPU
ElasticOccupancies(c) == [1 .. (c.num_racks * c.gpus_per_rack) -> 0 .. 2]

\* the number of running jobs on the first g GPUs
ResidentsUpTo(u, g) == SeqSum([h \in 1 .. g |-> u[h]])

\* the GPU of the k-th running job
ResidentGpu(u, k) ==
    CHOOSE g \in DOMAIN u : ResidentsUpTo(u, g - 1) < k /\ k <= ResidentsUpTo(u, g)

\* the running jobs, started at time 0
SharingTasks(u) ==
    [k \in 1 .. ResidentsUpTo(u, Len(u)) |->
        Task_start(NewTask(1, 1, 0, 8), 0, <<ResidentGpu(u, k)>>)]

\* the GPU map after GPU.allocate of each running job on its GPU
SharedGpuMap(c, u) ==
    [g \in DOMAIN u |->
        [NewGPU(c.gpu_memory) EXCEPT
            !.used_memory = u[g],
            !.running_tasks = [j \in 1 .. u[g] |-> ResidentsUpTo(u, g - 1) + j]]]

\* (num_gpus, memory_per_gpu) of a pending job
ElasticShapes == {<<1, 1>>, <<3, 1>>, <<2, 3>>}

ElasticQueues == [1 .. NumTasks -> {NewTask(s[1], s[2], 0, 1) : s \in ElasticShapes}]

\* [scheduler, current_time] of a call; Pollux takes no time into account
ElasticCalls ==
    {[scheduler |-> [kind |-> "pollux", patience_threshold |-> 11,
                     starvation_limit |-> 1, alpha |-> a],
      current_time |-> 1] : a \in {0, 5, 10}}
    \cup
    {[scheduler |-> [kind |-> "pollux_patient", patience_threshold |-> p,
                     starvation_limit |-> 1, alpha |-> a],
      current_time |-> now] : a \in {5, 10}, p \in {8, 9}, now \in {1, 2}}

InitElastic ==
    \E c \in ElasticClusters, call \in ElasticCalls, cf \in SimulatorConfigs,
       q \in ElasticQueues :
      \E u \in ElasticOccupancies(c) :
        /\ cf.max_time = Infinity
        /\ ~ (/\ call.scheduler.kind = "pollux_patient"
              /\ call.scheduler.alpha = One
              /\ c.inter_rack_penalty = 21)
        /\ cluster = c
        /\ gpus = SharedGpuMap(c, u)
        /\ scheduler = call.scheduler
        /\ config = cf
        /\ sorted_tasks = SharingTasks(u) \o q
        /\ current_time = call.current_time
        /\ pc = "schedule"
        /\ pending_tasks = [i \in 1 .. NumTasks |-> Len(SharingTasks(u)) + i]
        /\ running_tasks = [i \in 1 .. Len(SharingTasks(u)) |-> i]
        /\ allocations = <<>>
        /\ metrics = [total_gpu_time |-> 0, task_metrics |-> <<>>]
        /\ history = <<>>

NextElastic == Schedule

SpecElastic == InitElastic /\ [][NextElastic]_vars

-----------------------------------------------------------------------------
(* PolluxPatientScheduler._get_sharing_penalty called on the GPUs of a     *)
(* cluster of 1 rack x 2 GPUs of 4 GB that hold 0 to 3 running jobs each,  *)
(* next to a simulator configured with the default sharing map, with the   *)
(* maps {1: 1.0, 2: 0.5} and {1: 1.0, 2: 0.9}, with the floors 0.5 and     *)
(* 0.9, or with a sharing_penalty_fn.  history holds the last call.        *)

PredictSharing(g) ==
    /\ pc = "predict_calls"
    /\ history' = <<[op |-> "_get_sharing_penalty", gpu |-> g,
                     returned |-> _get_sharing_penalty(gpus, g)]>>
    /\ UNCHANGED <<cluster, gpus, scheduler, config, sorted_tasks,
                   current_time, pc, pending_tasks, running_tasks,
                   allocations, metrics>>

NextPredict == \E g \in GpuIds : PredictSharing(g)

PredictClusters ==
    {[num_racks |-> 1, gpus_per_rack |-> 2, gpu_memory |-> 4,
      intra_rack_penalty |-> 12, inter_rack_penalty |-> 15]}

PredictOccupancies(c) == [1 .. (c.num_racks * c.gpus_per_rack) -> 0 .. 3]

PredictConfigs ==
    {[max_time |-> Infinity, starvation_threshold |-> 2, time_step |-> 1,
      sharing_penalty_map |-> m, sharing_penalty_floor |-> floor,
      sharing_penalty_fn |-> fn, sharing_penalty_aggregation |-> "min"] :
        m \in {default_sharing_penalty_map, <<10, 5>>, <<10, 9>>},
        floor \in {5, 9}, fn \in {<<>>, <<10, 7>>}}

InitPredict ==
    \E c \in PredictClusters, s \in Schedulers, cf \in PredictConfigs :
      \E u \in PredictOccupancies(c) :
        /\ s.kind = "pollux_patient"
        /\ cluster = c
        /\ gpus = SharedGpuMap(c, u)
        /\ scheduler = s
        /\ config = cf
        /\ sorted_tasks = SharingTasks(u)
        /\ current_time = 1
        /\ pc = "predict_calls"
        /\ pending_tasks = <<>>
        /\ running_tasks = [i \in 1 .. Len(SharingTasks(u)) |-> i]
        /\ allocations = <<>>
        /\ metrics = [total_gpu_time |-> 0, task_metrics |-> <<>>]
        /\ history = <<>>

SpecPredict == InitPredict /\ [][NextPredict]_vars

-----------------------------------------------------------------------------
(* Simulator._get_task_sharing_penalty called on the running jobs of a     *)
(* cluster of 1 rack x 2 GPUs of 4 GB: 0 to 2 single-GPU jobs per GPU and  *)
(* one job on both GPUs.  The sharing map is the default one, {1: 1.0, 2:  *)
(* 0.5} or {1: 1.0, 2: 0.3}, the floor 0.5 or 0.9, sharing_penalty_fn is   *)
(* absent or gives 1.2 for one job and 0.3 for more, and the aggregation   *)
(* is "min" or "average".  history holds the last call.                    *)

TaskSharing(t) ==
    /\ pc = "sharing_calls"
    /\ sorted_tasks[t].status = "running"
    /\ history' = <<[op |-> "_get_task_sharing_penalty", task_id |-> t,
                     returned |-> _get_task_sharing_penalty(gpus, sorted_tasks[t])]>>
    /\ UNCHANGED <<cluster, gpus, scheduler, config, sorted_tasks,
                   current_time, pc, pending_tasks, running_tasks,
                   allocations, metrics>>

NextFactor == \E t \in TaskIds : TaskSharing(t)

FactorConfigs ==
    {[max_time |-> Infinity, starvation_threshold |-> 2, time_step |-> 1,
      sharing_penalty_map |-> m, sharing_penalty_floor |-> floor,
      sharing_penalty_fn |-> fn, sharing_penalty_aggregation |-> agg] :
        m \in {default_sharing_penalty_map, <<10, 5>>, <<10, 3>>},
        floor \in {5, 9}, fn \in {<<>>, <<12, 3>>},
        agg \in {"min", "average"}}

\* the single-GPU jobs followed by the job on all the GPUs
FactorTasks(c, u) ==
    Append(SharingTasks(u),
           Task_start(NewTask(c.num_racks * c.gpus_per_rack, 1, 0, 8), 0,
                      [g \in 1 .. (c.num_racks * c.gpus_per_rack) |-> g]))

FactorGpuMap(c, u) ==
    [g \in DOMAIN u |->
        GPU_allocate(SharedGpuMap(c, u)[g], Len(SharingTasks(u)) + 1, 1)]

InitFactor ==
    \E c \in PredictClusters, s \in Schedulers, cf \in FactorConfigs :
      \E u \in ElasticOccupancies(c) :
        /\ s.kind = "first_fit"
        /\ cluster = c
        /\ gpus = FactorGpuMap(c, u)
        /\ scheduler = s
        /\ config = cf
        /\ sorted_tasks = FactorTasks(c, u)
        /\ current_time = 1
        /\ pc = "sharing_calls"
        /\ pending_tasks = <<>>
        /\ running_tasks = [i \in 1 .. Len(FactorTasks(c, u)) |-> i]
        /\ allocations = <<>>
        /\ metrics = [total_gpu_time |-> 0, task_metrics |-> <<>>]
        /\ history = <<>>

SpecFactor == InitFactor /\ [][NextFactor]_vars

-----------------------------------------------------------------------------
(* Runs on the literal inputs of the scenarios: 80 GB GPUs, jobs of 40 GB  *)
(* per GPU and of duration 100, time_step 1.  These runs last hundreds of  *)
(* ticks, so the loop is capped by ScenarioHorizon.                        *)

ScenarioHorizon == 700

ScenarioSweep == LoopTop(ScenarioHorizon)

NextScenario ==
    \/ ScenarioSweep
    \/ Schedule
    \/ StartTasks
    \/ UpdateRunning
    \/ Account
    \/ Finish

ScenarioCluster(num_racks, gpus_per_rack) ==
    [num_racks |-> num_racks, gpus_per_rack |-> gpus_per_rack,
     gpu_memory |-> 80, intra_rack_penalty |-> 12, inter_rack_penalty |-> 15]

ScenarioScheduler(kind, patience_threshold) ==
    [kind |-> kind, patience_threshold |-> patience_threshold,
     starvation_limit |-> 500, alpha |-> 5]

ScenarioConfig(starvation_threshold, sharing_penalty_map) ==
    [max_time |-> Infinity, starvation_threshold |-> starvation_threshold,
     time_step |-> 1, sharing_penalty_map |-> sharing_penalty_map,
     sharing_penalty_floor |-> 5, sharing_penalty_fn |-> <<>>,
     sharing_penalty_aggregation |-> "min"]

\* cluster 1x2; First-Fit; the single job t0(2,40,0,100)
Scenario1 ==
    {<<ScenarioCluster(1, 2), ScenarioScheduler("first_fit", 11),
       ScenarioConfig(Infinity, default_sharing_penalty_map),
       <<NewTask(2, 40, 0, 100)>> >>}

\* cluster 1x4; Pollux with alpha 0.5; the single job t0(4,20,0,100)
Scenario5 ==
    {<<ScenarioCluster(1, 4), ScenarioScheduler("pollux", 11),
       ScenarioConfig(Infinity, default_sharing_penalty_map),
       <<NewTask(4, 20, 0, 100)>> >>}

\* cluster 2x1; t0(2,40,0,100), t1(2,40,0,100); starvation_threshold 50
Scenario2 ==
    {<<ScenarioCluster(2, 1), ScenarioScheduler("first_fit", 11),
       ScenarioConfig(50, default_sharing_penalty_map),
       <<NewTask(2, 40, 0, 100), NewTask(2, 40, 0, 100)>> >>}

\* cluster 2x2; t0(2,40,0,100), t1(2,40,10,100); Min-GPU-Time with
\* patience_threshold 1.1 (patient), or 1.2 and 1.5 (patience disabled)
Scenario4 ==
    {<<ScenarioCluster(2, 2), ScenarioScheduler("min_gpu_time", patience),
       ScenarioConfig(Infinity, default_sharing_penalty_map),
       <<NewTask(2, 40, 0, 100), NewTask(2, 40, 10, 100)>> >> :
        patience \in {11, 12, 15}}

\* cluster 1x1; sharing map {1: 1.0, 2: 0.9}; t0(1,40,0,100),
\* t1(1,40,50,100); the schedulers without patience and without elasticity
Scenario6 ==
    {<<ScenarioCluster(1, 1), ScenarioScheduler(kind, 11),
       ScenarioConfig(Infinity, (1 :> 10) @@ (2 :> 9)),
       <<NewTask(1, 40, 0, 100), NewTask(1, 40, 50, 100)>> >> :
        kind \in {"first_fit", "best_fit", "rack_aware"}}

InitScenario ==
    \E r \in Scenario1 \cup Scenario2 \cup Scenario4 \cup Scenario5
                \cup Scenario6 :
        InitRun(r[1], r[2], r[3], r[4])

SpecScenario == InitScenario /\ [][NextScenario]_vars

-----------------------------------------------------------------------------
(* A cluster whose GPUs are driven directly through GPU.allocate and       *)
(* GPU.deallocate, each call made for a task with that task's              *)
(* memory_per_gpu.  history keeps the last two calls, the latest first:    *)
(* the method, its arguments, the GPU map before the call and the value    *)
(* returned.                                                               *)

LastCalls(entry) == <<entry>> \o Prefix(history, 1)

GpuAllocate(g, t) ==
    /\ pc = "gpu_calls"
    /\ gpus' = [gpus EXCEPT ![g] =
                   GPU_allocate(@, t, sorted_tasks[t].memory_per_gpu)]
    /\ history' = LastCalls(
                     [op |-> "allocate", gpu |-> g, task_id |-> t,
                      memory_required |-> sorted_tasks[t].memory_per_gpu,
                      before |-> gpus,
                      returned |-> GPU_can_allocate(gpus[g],
                                       sorted_tasks[t].memory_per_gpu)])
    /\ UNCHANGED <<cluster, scheduler, config, sorted_tasks, current_time, pc,
                   pending_tasks, running_tasks, allocations, metrics>>

GpuDeallocate(g, t) ==
    /\ pc = "gpu_calls"
    /\ gpus' = [gpus EXCEPT ![g] =
                   GPU_deallocate(@, t, sorted_tasks[t].memory_per_gpu)]
    /\ history' = LastCalls(
                     [op |-> "deallocate", gpu |-> g, task_id |-> t,
                      memory_required |-> sorted_tasks[t].memory_per_gpu,
                      before |-> gpus, returned |-> TRUE])
    /\ UNCHANGED <<cluster, scheduler, config, sorted_tasks, current_time, pc,
                   pending_tasks, running_tasks, allocations, metrics>>

NextGPU ==
    \E g \in DOMAIN gpus, t \in TaskIds :
        \/ GpuAllocate(g, t)
        \/ GpuDeallocate(g, t)

GpuCallClusters ==
    {[num_racks |-> 1, gpus_per_rack |-> 1, gpu_memory |-> m,
      intra_rack_penalty |-> 12, inter_rack_penalty |-> 15] : m \in {2, 3}}

GpuCallWorkloads ==
    {w \in Workloads :
        \A i \in DOMAIN w : w[i].submission_time = 0 /\ w[i].estimated_duration = 1}

InitGPU ==
    \E c \in GpuCallClusters, s \in Schedulers, cf \in SimulatorConfigs,
       w \in GpuCallWorkloads :
        /\ s.kind = "first_fit"
        /\ cf.max_time = Infinity
        /\ cluster = c
        /\ gpus = NewGpuMap(c)
        /\ scheduler = s
        /\ config = cf
        /\ sorted_tasks = w
        /\ current_time = 0
        /\ pc = "gpu_calls"
        /\ pending_tasks = <<>>
        /\ running_tasks = <<>>
        /\ allocations = <<>>
        /\ metrics = [total_gpu_time |-> 0, task_metrics |-> <<>>]
        /\ history = <<>>

SpecGPU == InitGPU /\ [][NextGPU]_vars

-----------------------------------------------------------------------------
(* GPU.allocate and Scheduler.allocate (the base class's and Pollux's)     *)
(* called directly on a cluster of 1 rack x 2 GPUs of 2 GB, with lists of  *)
(* one or two GPU ids.  history holds the last call.                       *)

AllocateOnGpu(g, t) ==
    /\ pc = "allocate_calls"
    /\ gpus' = [gpus EXCEPT ![g] =
                   GPU_allocate(@, t, sorted_tasks[t].memory_per_gpu)]
    /\ history' = <<[op |-> "GPU.allocate", gpu_ids |-> <<g>>, task_id |-> t,
                     before |-> gpus,
                     returned |-> GPU_can_allocate(gpus[g],
                                      sorted_tasks[t].memory_per_gpu)]>>
    /\ UNCHANGED <<cluster, scheduler, config, sorted_tasks, current_time, pc,
                   pending_tasks, running_tasks, allocations, metrics>>

AllocateOnGpus(t, gpu_ids) ==
    /\ pc = "allocate_calls"
    /\ gpus' = allocate(gpus, t, sorted_tasks[t], gpu_ids)
    /\ history' = <<[op |-> "Scheduler.allocate", gpu_ids |-> gpu_ids,
                     task_id |-> t, before |-> gpus,
                     returned |-> allocate_ok(gpus, sorted_tasks[t],
                                              gpu_ids)]>>
    /\ UNCHANGED <<cluster, scheduler, config, sorted_tasks, current_time, pc,
                   pending_tasks, running_tasks, allocations, metrics>>

AllocateLists == UNION {[1 .. n -> GpuIds] : n \in 1 .. 2}

NextAllocate ==
    \E t \in TaskIds :
        \/ \E g \in GpuIds : AllocateOnGpu(g, t)
        \/ \E gpu_ids \in AllocateLists : AllocateOnGpus(t, gpu_ids)

AllocateClusters ==
    {[num_racks |-> 1, gpus_per_rack |-> 2, gpu_memory |-> 2,
      intra_rack_penalty |-> 12, inter_rack_penalty |-> 15]}

InitAllocate ==
    \E c \in AllocateClusters, s \in Schedulers, cf \in SimulatorConfigs,
       w \in GpuCallWorkloads :
        /\ s.kind \in {"first_fit", "pollux"}
        /\ cf.max_time = Infinity
        /\ cluster = c
        /\ gpus = NewGpuMap(c)
        /\ scheduler = s
        /\ config = cf
        /\ sorted_tasks = w
        /\ current_time = 0
        /\ pc = "allocate_calls"
        /\ pending_tasks = <<>>
        /\ running_tasks = <<>>
        /\ allocations = <<>>
        /\ metrics = [total_gpu_time |-> 0, task_metrics |-> <<>>]
        /\ history = <<>>

SpecAllocate == InitAllocate /\ [][NextAllocate]_vars

-----------------------------------------------------------------------------
(* Cluster.calculate_penalty called on every list of at most MaxListLen    *)
(* GPU ids of the cluster, repetitions included, for every pair of         *)
(* penalties with 1.0 <= intra_rack_penalty <= inter_rack_penalty taken    *)
(* from 1.0, 1.2 and 1.5.  history holds the last call.                    *)

MaxListLen == 3

GpuIdLists == UNION {[1 .. n -> GpuIds] : n \in 0 .. MaxListLen}

CalculatePenalty(gpu_ids) ==
    /\ pc = "penalty_calls"
    /\ history' = <<[op |-> "calculate_penalty", gpu_ids |-> gpu_ids,
                     returned |-> calculate_penalty(gpu_ids)]>>
    /\ UNCHANGED <<cluster, gpus, scheduler, config, sorted_tasks,
                   current_time, pc, pending_tasks, running_tasks,
                   allocations, metrics>>

NextPenalty == \E gpu_ids \in GpuIdLists : CalculatePenalty(gpu_ids)

PenaltyClusters ==
    {[num_racks |-> 2, gpus_per_rack |-> 2, gpu_memory |-> 2,
      intra_rack_penalty |-> intra, inter_rack_penalty |-> inter] :
        intra \in {10, 12, 15}, inter \in {10, 12, 15}}

InitPenalty ==
    \E c \in PenaltyClusters, s \in Schedulers, cf \in SimulatorConfigs :
        /\ One <= c.intra_rack_penalty
        /\ c.intra_rack_penalty <= c.inter_rack_penalty
        /\ s.kind = "first_fit"
        /\ cf.max_time = Infinity
        /\ cluster = c
        /\ gpus = NewGpuMap(c)
        /\ scheduler = s
        /\ config = cf
        /\ sorted_tasks = <<>>
        /\ current_time = 0
        /\ pc = "penalty_calls"
        /\ pending_tasks = <<>>
        /\ running_tasks = <<>>
        /\ allocations = <<>>
        /\ metrics = [total_gpu_time |-> 0, task_metrics |-> <<>>]
        /\ history = <<>>

SpecPenalty == InitPenalty /\ [][NextPenalty]_vars

-----------------------------------------------------------------------------
(* Properties of a run *)

\* the top of the loop, the exit of the loop and the return of run()
TickBoundary == pc \in {"sweep", "exit", "done"}

\* the sum of memory_per_gpu over the RUNNING tasks placed on GPU g
ReservedOn(g) ==
    SeqSum([t \in 1 .. Len(sorted_tasks) |->
               IF /\ sorted_tasks[t].status = "running"
                  /\ g \in Range(sorted_tasks[t].allocated_gpus)
               THEN sorted_tasks[t].memory_per_gpu
               ELSE 0])

\* C1: in every reachable state of a run, under each of the six schedulers,
\* every GPU has used_memory <= total_memory.
C1_MemoryWithinCapacity ==
    \A g \in DOMAIN gpus : gpus[g].used_memory <= gpus[g].total_memory

\* a GPU filled exactly to its capacity by two tasks
C1_Witness ==
    \E g \in DOMAIN gpus :
        /\ gpus[g].used_memory = gpus[g].total_memory
        /\ Len(gpus[g].running_tasks) = 2

\* C2: at every tick boundary each GPU's used_memory is the sum of
\* memory_per_gpu over the RUNNING tasks whose allocated_gpus contains it.
C2_UsedMemoryIsSumOfPlacedJobs ==
    TickBoundary => \A g \in DOMAIN gpus : gpus[g].used_memory = ReservedOn(g)

\* a tick boundary at which a GPU still holds a running task after another
\* task placed on it has completed and released its share
C2_Witness ==
    /\ pc = "sweep"
    /\ \E g \in DOMAIN gpus, t \in TaskIds :
          /\ gpus[g].used_memory > 0
          /\ sorted_tasks[t].status = "completed"
          /\ g \in Range(sorted_tasks[t].allocated_gpus)

\* C3: at every tick boundary, for every RUNNING task, each GPU id of its
\* allocated_gpus names a GPU whose running_tasks contains the task's id.
C3_PlacementConsistency ==
    TickBoundary =>
        \A t \in TaskIds :
            sorted_tasks[t].status = "running" =>
                \A i \in DOMAIN sorted_tasks[t].allocated_gpus :
                    LET g == sorted_tasks[t].allocated_gpus[i]
                    IN  g \in DOMAIN gpus /\ t \in Range(gpus[g].running_tasks)

\* a tick boundary with a task running on GPUs of two racks
C3_Witness ==
    /\ pc = "sweep"
    /\ \E t \in TaskIds :
          /\ sorted_tasks[t].status = "running"
          /\ Cardinality({RackOf(g) : g \in Range(sorted_tasks[t].allocated_gpus)}) = 2

\* C4 (as claimed): when run() returns, every task is COMPLETED or STARVED,
\* for every max_time and starvation_threshold.
C4_AllTerminalAtReturn == pc = "done" => all_done

-----------------------------------------------------------------------------
(* Properties of the GPU methods *)

\* the last two calls released the same (task id, memory) on one GPU, the
\* first of them while the task was resident there
ReleasedTwice ==
    /\ Len(history) = 2
    /\ history[1].op = "deallocate"
    /\ history[2].op = "deallocate"
    /\ history[1].gpu = history[2].gpu
    /\ history[1].task_id = history[2].task_id
    /\ history[1].memory_required = history[2].memory_required
    /\ history[2].task_id
          \in Range(history[2].before[history[2].gpu].running_tasks)

\* C5 (as claimed): a second deallocate for the same (task id, memory) on a
\* GPU leaves running_tasks and used_memory as the first one left them, also
\* when other tasks are resident on that GPU.
C5_DeallocateTwiceIsOnce ==
    ReleasedTwice =>
        LET g == history[1].gpu
        IN  /\ gpus[g].running_tasks = history[1].before[g].running_tasks
            /\ gpus[g].used_memory = history[1].before[g].used_memory

-----------------------------------------------------------------------------
(* Properties of a schedule() call.  They are read in the state in which    *)
(* the call has just returned (pc = "start"): allocations is what it        *)
(* returned, gpus the GPU map it left, and the last entry of history holds  *)
(* its arguments and the GPU map it was given.                              *)

LastCall == history[Len(history)]

Returned == pc = "start" /\ history # <<>>

\* task t was handed to the call as a PENDING task and was not placed
Refused(e, t) ==
    /\ t \in Range(e.pending)
    /\ e.statuses[t] = "pending"
    /\ t \notin DOMAIN e.allocations

\* the GPUs claimed by the placements the call made before it came to t
ClaimedBefore(e, t) ==
    UNION {Range(e.allocations[e.pending[i]]) :
              i \in {j \in DOMAIN e.pending :
                        /\ e.pending[j] \in DOMAIN e.allocations
                        /\ \E k \in DOMAIN e.pending :
                              j < k /\ e.pending[k] = t}}

\* the GPUs with free memory that can take t's memory_per_gpu and were not
\* claimed before t's turn; an unclaimed GPU is as the call found it
Qualifying(e, t) ==
    {g \in GpuIds :
        /\ g \notin ClaimedBefore(e, t)
        /\ e.before[g].total_memory - e.before[g].used_memory > 0
        /\ e.before[g].used_memory + sorted_tasks[t].memory_per_gpu
              <= e.before[g].total_memory}

\* the least penalty over the placements of t on Qualifying GPUs, Infinity
\* when there are fewer than num_gpus of them
BestPenalty(e, t) ==
    LET n == sorted_tasks[t].num_gpus
    IN  IF Cardinality(Qualifying(e, t)) < n THEN Infinity
        ELSE IF n <= 1 THEN One
        ELSE IF \E r \in RackIds :
                    Cardinality({g \in Qualifying(e, t) : RackOf(g) = r}) >= n
             THEN cluster.intra_rack_penalty
             ELSE cluster.inter_rack_penalty

\* the two reasons Min-GPU-Time has for waiting; with no candidate the best
\* penalty is float('inf'), above every threshold
TooCostlyAndNotStarving(e, t) ==
    /\ \/ BestPenalty(e, t) = Infinity
       \/ BestPenalty(e, t) > scheduler.patience_threshold
    /\ e.now - sorted_tasks[t].submission_time <= scheduler.starvation_limit

\* C6 (as claimed): under Min-GPU-Time, when schedule() returns without
\* placing a PENDING task although at that moment at least num_gpus GPUs
\* satisfy can_allocate(memory_per_gpu), the task's best penalty is above
\* patience_threshold and its wait is at most starvation_limit.
C6_RefusedOnlyWhenCostlyAndNotStarving ==
    (Returned /\ scheduler.kind = "min_gpu_time") =>
        \A t \in TaskIds :
            (/\ Refused(LastCall, t)
             /\ Cardinality({g \in GpuIds :
                                gpus[g].used_memory + sorted_tasks[t].memory_per_gpu
                                    <= gpus[g].total_memory})
                   >= sorted_tasks[t].num_gpus)
                => TooCostlyAndNotStarving(LastCall, t)

\* C6 (amended): under Min-GPU-Time, when schedule() returns without placing
\* a PENDING task although, at the task's turn in the call, at least num_gpus
\* GPUs with free memory that were not claimed by a placement made earlier in
\* the same call satisfied can_allocate(memory_per_gpu), the least penalty
\* over those GPUs is above patience_threshold and the task's wait is at most
\* starvation_limit.
C6_RefusedAtItsTurnOnlyWhenCostlyAndNotStarving ==
    (Returned /\ scheduler.kind = "min_gpu_time") =>
        \A t \in TaskIds :
            (/\ Refused(LastCall, t)
             /\ Cardinality(Qualifying(LastCall, t)) >= sorted_tasks[t].num_gpus)
                => TooCostlyAndNotStarving(LastCall, t)

\* a call that placed one task and made a later one wait, although enough
\* unclaimed GPUs could take it
C6_Witness ==
    /\ Returned
    /\ scheduler.kind = "min_gpu_time"
    /\ \E t \in TaskIds :
          /\ Refused(LastCall, t)
          /\ ClaimedBefore(LastCall, t) # {}
          /\ sorted_tasks[t].num_gpus >= 2
          /\ Cardinality(Qualifying(LastCall, t)) >= sorted_tasks[t].num_gpus

\* task t was refused by every schedule() call it was handed to although
\* each time enough unclaimed GPUs could take it
CandidateAtEveryCall(t) ==
    \A i \in DOMAIN history :
        t \in Range(history[i].pending) =>
            /\ Refused(history[i], t)
            /\ Cardinality(Qualifying(history[i], t)) >= sorted_tasks[t].num_gpus

\* task t has just been marked STARVED by the sweep of this tick, at which
\* it was the only task waiting and enough GPUs could take it
StarvedWithRoom(t) ==
    /\ pc = "schedule"
    /\ pending_tasks = <<t>>
    /\ sorted_tasks[t].status = "starved"
    /\ Cardinality({g \in GpuIds :
                       /\ gpus[g].total_memory - gpus[g].used_memory > 0
                       /\ gpus[g].used_memory + sorted_tasks[t].memory_per_gpu
                             <= gpus[g].total_memory})
          >= sorted_tasks[t].num_gpus

\* C7 (as claimed): under Min-GPU-Time with starvation_limit below
\* starvation_threshold, a task for which a placement exists at every tick is
\* started before the simulator can mark it STARVED: no task is marked
\* STARVED having had a candidate at every call and at the tick of the mark.
C7_ForcedBeforeStarved ==
    (/\ scheduler.kind = "min_gpu_time"
     /\ Less(scheduler.starvation_limit, config.starvation_threshold)) =>
        \A t \in TaskIds : ~(StarvedWithRoom(t) /\ CandidateAtEveryCall(t))

\* C8: within one schedule() call, of each of the six schedulers, no GPU id
\* is in the placements of two tasks and no GPU id is twice in one placement.
C8_NoGpuPlacedTwice ==
    Returned =>
        /\ \A t, u \in DOMAIN allocations :
              t # u => Range(allocations[t]) \cap Range(allocations[u]) = {}
        /\ \A t \in DOMAIN allocations :
              \A i, j \in DOMAIN allocations[t] :
                  allocations[t][i] = allocations[t][j] => i = j

\* a call that returned two placements, one of them of several GPUs, where
\* a GPU of the first could still have taken the second task's memory
C8_Witness ==
    /\ Returned
    /\ \E t, u \in DOMAIN allocations :
          /\ t # u
          /\ Len(allocations[t]) >= 2
          /\ \E g \in Range(allocations[t]) :
                gpus[g].used_memory + sorted_tasks[u].memory_per_gpu
                    <= gpus[g].total_memory

\* C9: when schedule() returns, every returned placement has been applied:
\* each GPU of it could take memory_per_gpu when chosen, now has the task id
\* in running_tasks and has used_memory raised by exactly memory_per_gpu;
\* every GPU in no returned placement has the used_memory and running_tasks
\* it had before the call.
C9_ReturnedPlacementsAreApplied ==
    Returned =>
        /\ \A t \in DOMAIN allocations :
              \A g \in Range(allocations[t]) :
                  LET mem == sorted_tasks[t].memory_per_gpu
                      was == LastCall.before[g]
                  IN  /\ was.used_memory + mem <= was.total_memory
                      /\ t \in Range(gpus[g].running_tasks)
                      /\ gpus[g].used_memory = was.used_memory + mem
        /\ \A g \in GpuIds :
              (\A t \in DOMAIN allocations : g \notin Range(allocations[t])) =>
                  /\ gpus[g].used_memory = LastCall.before[g].used_memory
                  /\ gpus[g].running_tasks = LastCall.before[g].running_tasks

\* a call that placed one task on several GPUs, refused a second task and
\* left a GPU out of every placement
C9_Witness ==
    /\ Returned
    /\ \E t \in DOMAIN allocations : Len(allocations[t]) >= 2
    /\ \E u \in TaskIds : Refused(LastCall, u)
    /\ \E g \in GpuIds : \A t \in DOMAIN allocations : g \notin Range(allocations[t])

\* C10 (as claimed): a returned placement with a GPU for which
\* can_allocate(memory_per_gpu) is false when the simulator applies it is
\* rejected, and the task stays PENDING.
C10_FailingPlacementIsRejected ==
    [][pc = "start" =>
          \A t \in DOMAIN allocations :
              (\E g \in Range(allocations[t]) :
                   ~GPU_can_allocate(gpus[g], sorted_tasks[t].memory_per_gpu))
                  => sorted_tasks'[t].status = "pending"]_vars

-----------------------------------------------------------------------------
(* Properties of the loop of Simulator.run *)

\* C11: schedule(), of each of the six schedulers, leaves status,
\* start_time, completion_time and allocated_gpus of every task as they
\* were; these fields change only in the simulator's own steps.
C11_ScheduleLeavesTasksAlone ==
    [][pc = "schedule" =>
          \A t \in TaskIds :
              /\ sorted_tasks'[t].status = sorted_tasks[t].status
              /\ sorted_tasks'[t].start_time = sorted_tasks[t].start_time
              /\ sorted_tasks'[t].completion_time = sorted_tasks[t].completion_time
              /\ sorted_tasks'[t].allocated_gpus = sorted_tasks[t].allocated_gpus]_vars

\* a call has returned a placement for a task that is still PENDING, not
\* started and without GPUs of its own
C11_Witness ==
    /\ Returned
    /\ \E t \in DOMAIN allocations :
          /\ allocations[t] # <<>>
          /\ sorted_tasks[t].status = "pending"
          /\ sorted_tasks[t].start_time = None
          /\ sorted_tasks[t].allocated_gpus = <<>>

\* the wait of task t is above a finite starvation_threshold
WaitedTooLong(t) ==
    /\ config.starvation_threshold # Infinity
    /\ current_time - sorted_tasks[t].submission_time
          > config.starvation_threshold

\* C12: at each tick every submitted PENDING task whose wait is above
\* starvation_threshold is marked STARVED before schedule() is called at
\* that tick, and while the loop runs a task is marked STARVED only there
\* and only with a wait above starvation_threshold.
C12_StarvationSweep ==
    [][/\ (pc = "sweep" /\ pc' = "schedule") =>
             \A t \in TaskIds :
                 (/\ sorted_tasks[t].submission_time <= current_time
                  /\ sorted_tasks[t].status = "pending"
                  /\ WaitedTooLong(t))
                     => sorted_tasks'[t].status = "starved"
       /\ pc' # "done" =>
             \A t \in TaskIds :
                 (/\ sorted_tasks'[t].status = "starved"
                  /\ sorted_tasks[t].status # "starved")
                     => pc = "sweep" /\ WaitedTooLong(t)]_vars

\* the scheduler is about to be called with one task just marked STARVED
\* and another, whose wait equals the threshold, still PENDING
C12_Witness ==
    /\ pc = "schedule"
    /\ \E t, u \in Range(pending_tasks) :
          /\ sorted_tasks[t].status = "starved"
          /\ WaitedTooLong(t)
          /\ sorted_tasks[u].status = "pending"
          /\ current_time - sorted_tasks[u].submission_time
                = config.starvation_threshold

\* the penalty of a placement, from the racks of its GPUs
TopologyPenalty(gpu_ids) ==
    IF Len(gpu_ids) <= 1 THEN One
    ELSE IF Cardinality({RackOf(gpu_ids[i]) : i \in DOMAIN gpu_ids}) = 1
         THEN cluster.intra_rack_penalty
         ELSE cluster.inter_rack_penalty

\* the tasks of this tick's running list that come before t in it (all of
\* them when t is not in the list) and are completed by the step being taken
ReleasedBefore(t) ==
    {running_tasks[i] :
        i \in {j \in DOMAIN running_tasks :
                  /\ sorted_tasks[running_tasks[j]].status = "running"
                  /\ sorted_tasks'[running_tasks[j]].status = "completed"
                  /\ \A k \in DOMAIN running_tasks :
                        running_tasks[k] = t => j < k}}

\* the number of tasks resident on GPU g when the loop over the running
\* tasks comes to t
OccupancyAtTurn(t, g) ==
    Len(gpus[g].running_tasks)
        - Cardinality({u \in ReleasedBefore(t) :
                          g \in Range(sorted_tasks[u].allocated_gpus)})

\* now - start_time >= estimated_duration x topology penalty x sharing
\* factor, the factor taken from the occupancy of t's GPUs at t's turn
Due(t) ==
    LET task == sorted_tasks[t]
        ids == task.allocated_gpus
        factors == [i \in DOMAIN ids |->
                       _get_gpu_sharing_penalty(OccupancyAtTurn(t, ids[i]))]
        elapsed == current_time - task.start_time
        base == task.estimated_duration * TopologyPenalty(ids)
    IN  IF config.sharing_penalty_aggregation = "average"
        THEN elapsed * One * One * Len(ids) >= base * SeqSum(factors)
        ELSE \E i \in DOMAIN ids :
                /\ \A j \in DOMAIN ids : factors[i] <= factors[j]
                /\ elapsed * One * One >= base * factors[i]

\* task t is COMPLETED at this tick and its GPUs no longer hold it
CompletedAndReleased(t) ==
    /\ sorted_tasks'[t].status = "completed"
    /\ sorted_tasks'[t].completion_time = current_time
    /\ \A g \in Range(sorted_tasks[t].allocated_gpus) :
          /\ t \notin Range(gpus'[g].running_tasks)
          /\ gpus'[g].used_memory <= gpus[g].used_memory
                                        - sorted_tasks[t].memory_per_gpu

\* C13 (as claimed): in the running-progress step of a tick, every RUNNING
\* task is marked COMPLETED, and its GPUs released, exactly when
\* now - start_time >= estimated_duration x topology penalty x sharing
\* factor: at the first such tick and at no earlier one.
C13_CompletedAtFirstDueTick ==
    [][pc = "update" =>
          \A t \in TaskIds :
              sorted_tasks[t].status = "running" =>
                  /\ Due(t) => CompletedAndReleased(t)
                  /\ ~Due(t) => sorted_tasks'[t] = sorted_tasks[t]]_vars

\* C13, for the tasks that were RUNNING when the tick began
C13_CompletedAtFirstDueTickAfterStart ==
    [][pc = "update" =>
          \A t \in Range(running_tasks) :
              sorted_tasks[t].status = "running" =>
                  /\ Due(t) => CompletedAndReleased(t)
                  /\ ~Due(t) => sorted_tasks'[t] = sorted_tasks[t]]_vars

\* C14: under Pollux and Pollux-Patient every placement returned for a
\* task has a length n with 1 <= n <= num_gpus.
C14_ElasticWidthWithinRequest ==
    (Returned /\ scheduler.kind \in {"pollux", "pollux_patient"}) =>
        \A t \in DOMAIN allocations :
            /\ 1 <= Len(allocations[t])
            /\ Len(allocations[t]) <= sorted_tasks[t].num_gpus

\* a call of an elastic scheduler that returned a placement narrower than
\* the request and another of exactly the requested width
C14_Witness ==
    /\ Returned
    /\ scheduler.kind \in {"pollux", "pollux_patient"}
    /\ \E t, u \in DOMAIN allocations :
          /\ Len(allocations[t]) < sorted_tasks[t].num_gpus
          /\ Len(allocations[u]) = sorted_tasks[u].num_gpus
          /\ sorted_tasks[u].num_gpus >= 2

-----------------------------------------------------------------------------
(* Properties of Cluster.calculate_penalty *)

PenaltyCalled == pc = "penalty_calls" /\ history # <<>>

\* the list of the last call has two or more entries, all of one rack
SeveralInOneRack(S) ==
    /\ Len(S) >= 2
    /\ \A i, j \in DOMAIN S : RackOf(S[i]) = RackOf(S[j])

\* C15 (as claimed): calculate_penalty(S) is 1.0 if and only if |S| <= 1,
\* is intra_rack_penalty if and only if |S| >= 2 and all GPUs of S are in
\* one rack, and is inter_rack_penalty otherwise.
C15_PenaltyIffShape ==
    PenaltyCalled =>
        LET S == history[1].gpu_ids
            penalty == history[1].returned
        IN  /\ penalty = One <=> Len(S) <= 1
            /\ penalty = cluster.intra_rack_penalty <=> SeveralInOneRack(S)
            /\ (Len(S) >= 2 /\ ~SeveralInOneRack(S))
                  => penalty = cluster.inter_rack_penalty

\* C15 (amended): calculate_penalty(S) is 1.0 if |S| <= 1, is
\* intra_rack_penalty if |S| >= 2 and all GPUs of S are in one rack, and is
\* inter_rack_penalty otherwise; when 1.0 < intra_rack_penalty <
\* inter_rack_penalty the three values are distinct, so each value is
\* returned only in its own case.
C15_PenaltyByShape ==
    PenaltyCalled =>
        LET S == history[1].gpu_ids
            penalty == history[1].returned
        IN  /\ Len(S) <= 1 => penalty = One
            /\ SeveralInOneRack(S) => penalty = cluster.intra_rack_penalty
            /\ (Len(S) >= 2 /\ ~SeveralInOneRack(S))
                  => penalty = cluster.inter_rack_penalty
            /\ (/\ One < cluster.intra_rack_penalty
                /\ cluster.intra_rack_penalty < cluster.inter_rack_penalty)
                  => /\ penalty = One => Len(S) <= 1
                     /\ penalty = cluster.intra_rack_penalty
                           => SeveralInOneRack(S)
                     /\ penalty = cluster.inter_rack_penalty
                           => (Len(S) >= 2 /\ ~SeveralInOneRack(S))

\* the penalty of three GPU ids of two racks has been computed in a cluster
\* with 1.0 < intra_rack_penalty < inter_rack_penalty
C15_Witness ==
    /\ PenaltyCalled
    /\ One < cluster.intra_rack_penalty
    /\ cluster.intra_rack_penalty < cluster.inter_rack_penalty
    /\ Len(history[1].gpu_ids) = 3
    /\ ~SeveralInOneRack(history[1].gpu_ids)
    /\ history[1].returned = cluster.inter_rack_penalty

-----------------------------------------------------------------------------
(* Properties of the clock and of the GPUs' busy time *)

\* C16: across the ticks of a run with time_step > 0 the clock never goes
\* back, the step that opens the next tick strictly advances it, the
\* schedule() calls of successive ticks see strictly increasing times, and
\* no GPU's total_time ever decreases.
C16_ClockAndBusyTimeMonotone ==
    [][config.time_step > 0 =>
        /\ current_time' >= current_time
        /\ (pc = "account" /\ pc' = "sweep") => current_time' > current_time
        /\ \A i, j \in DOMAIN history' :
              i < j => history'[i].now < history'[j].now
        /\ \A g \in DOMAIN gpus : gpus'[g].total_time >= gpus[g].total_time
      ]_vars

\* a third tick has begun, with a time_step of 2, and some GPU has been busy
\* during two ticks
C16_Witness ==
    /\ pc = "sweep"
    /\ config.time_step = 2
    /\ Len(history) >= 2
    /\ current_time = 2 * Len(history)
    /\ \E g \in DOMAIN gpus : gpus[g].total_time >= 2 * config.time_step

-----------------------------------------------------------------------------
(* Properties of the runs on the scenarios' literal inputs.  Job t0 is    *)
(* task 1 and job t1 is task 2; GPU rack-R-G is GPU R * gpus_per_rack +    *)
(* G + 1.                                                                  *)

RunOf(r) == cluster = r[1] /\ scheduler = r[2] /\ config = r[3]

InScenario2 == \E r \in Scenario2 : RunOf(r)

\* the first schedule() call of the run placed t0 alone, on gpu_ids
FirstCallPlacesT0On(gpu_ids) ==
    history # <<>> =>
        /\ history[1].now = 0
        /\ history[1].allocations = (1 :> gpu_ids)

\* C17 (as claimed): in scenario 2, t0 takes both GPUs, t1 stays PENDING
\* and becomes STARVED at now = 51.
C17_Scenario2Starves ==
    InScenario2 =>
        /\ FirstCallPlacesT0On(<<1, 2>>)
        /\ sorted_tasks[2].status \in {"pending", "starved"}
        /\ sorted_tasks[2].status = "starved"
              <=> \/ current_time > 51
                  \/ current_time = 51 /\ pc # "sweep"

\* C17 (amended): in scenario 2, t0 takes both GPUs at now = 0 and t1 stays
\* PENDING during that tick only: the call at now = 1 places t1 on the same
\* two GPUs, which have 40 GB free each, and t1 is never STARVED.
C17_Scenario2Shares ==
    InScenario2 =>
        /\ FirstCallPlacesT0On(<<1, 2>>)
        /\ Len(history) >= 2 =>
              /\ history[2].now = 1
              /\ history[2].allocations = (2 :> <<1, 2>>)
        /\ sorted_tasks[2].status # "starved"
        /\ sorted_tasks[2].status = "pending"
              <=> \/ current_time = 0
                  \/ current_time = 1 /\ pc \in {"sweep", "schedule", "start"}
        /\ sorted_tasks[2].status # "pending"
              => /\ sorted_tasks[2].start_time = 1
                 /\ sorted_tasks[2].allocated_gpus = <<1, 2>>

\* now = 51 in scenario 2: t1 is running next to t0 on both GPUs
C17_Witness ==
    /\ InScenario2
    /\ current_time = 51
    /\ pc = "schedule"
    /\ sorted_tasks[1].status = "running"
    /\ sorted_tasks[2].status = "running"
    /\ \A g \in {1, 2} : gpus[g].running_tasks = <<1, 2>>

InScenario4Patient ==
    \E r \in Scenario4 : RunOf(r) /\ r[2].patience_threshold = 11

InScenario4NoPatience ==
    \E r \in Scenario4 :
        RunOf(r) /\ r[2].patience_threshold >= cluster.intra_rack_penalty

\* task t is pending at every schedule() call from now = first to now =
\* placed_at, and the call at now = placed_at is the one that places it
RefusedUntil(t, first, placed_at) ==
    \A i \in DOMAIN history :
        /\ (first <= history[i].now /\ history[i].now <= placed_at)
              => t \in Range(history[i].pending)
        /\ t \in Range(history[i].pending)
              => (t \in DOMAIN history[i].allocations
                     <=> history[i].now = placed_at)

\* task t, once started, has start_time = start and, once completed,
\* completion_time = completion
StartsAndCompletesAt(t, start, completion) ==
    /\ sorted_tasks[t].status \in {"pending", "running", "completed"}
    /\ sorted_tasks[t].status # "pending"
          => sorted_tasks[t].start_time = start
    /\ sorted_tasks[t].status = "completed"
          => sorted_tasks[t].completion_time = completion

\* C18 (as claimed): in scenario 4 with patience_threshold 1.1 and
\* starvation_limit 500, t0 runs on rack-0 (from t = 0) and completes at
\* t = 120, and t1 is refused at every tick until it is placed at t = 511.
C18_Scenario4PatientT0At0 ==
    InScenario4Patient =>
        /\ FirstCallPlacesT0On(<<1, 2>>)
        /\ StartsAndCompletesAt(1, 0, 120)
        /\ RefusedUntil(2, 10, 511)

\* C18 (amended): in scenario 4 with patience_threshold 1.1 and
\* starvation_limit 500, t0 is refused at every tick (its best penalty is
\* 1.2 too) until it is placed on rack-0 at t = 501, and, with the default
\* sharing map, completes at t = 609; t1 is refused at every tick until it
\* is placed at t = 511.
C18_Scenario4PatientBothForced ==
    InScenario4Patient =>
        /\ RefusedUntil(1, 0, 501)
        /\ \A i \in DOMAIN history :
              history[i].now = 501 => history[i].allocations = (1 :> <<1, 2>>)
        /\ StartsAndCompletesAt(1, 501, 609)
        /\ RefusedUntil(2, 10, 511)
        /\ sorted_tasks[2].status # "pending"
              => sorted_tasks[2].start_time = 511

\* t = 511 in scenario 4 with patience: t1 has just been started, t0 has
\* been running since 501
C18_Witness ==
    /\ InScenario4Patient
    /\ current_time = 511
    /\ pc = "update"
    /\ sorted_tasks[1].status = "running"
    /\ sorted_tasks[1].start_time = 501
    /\ sorted_tasks[2].status = "running"
    /\ sorted_tasks[2].start_time = 511

\* the schedule() call at now = 10 placed t1 alone, on gpu_ids
CallAt10PlacesT1On(gpu_ids) ==
    \A i \in DOMAIN history :
        history[i].now = 10 => history[i].allocations = (2 :> gpu_ids)

\* C19 (as claimed): in scenario 4 with patience disabled, t0 runs on
\* rack-0 since t = 0 and t1 is placed at t = 10 on the two GPUs of rack-1.
C19_Scenario4NoPatienceRack1 ==
    InScenario4NoPatience =>
        /\ FirstCallPlacesT0On(<<1, 2>>)
        /\ CallAt10PlacesT1On(<<3, 4>>)

\* C19 (amended): in scenario 4 with patience disabled, t0 runs on rack-0
\* since t = 0 and t1 is placed at t = 10 on the two GPUs of rack-0, which
\* have 40 GB free each; the GPUs of rack-1 stay empty.
C19_Scenario4NoPatienceRack0 ==
    InScenario4NoPatience =>
        /\ FirstCallPlacesT0On(<<1, 2>>)
        /\ sorted_tasks[1].status # "pending"
              => sorted_tasks[1].start_time = 0
        /\ RefusedUntil(2, 10, 10)
        /\ CallAt10PlacesT1On(<<1, 2>>)
        /\ \A g \in {3, 4} : gpus[g].running_tasks = <<>>

\* t = 10 in scenario 4 with patience disabled: t1 has just been started on
\* the GPUs of rack-0, next to t0
C19_Witness ==
    /\ InScenario4NoPatience
    /\ current_time = 10
    /\ pc = "update"
    /\ sorted_tasks[1].status = "running"
    /\ sorted_tasks[2].status = "running"
    /\ sorted_tasks[2].allocated_gpus = <<1, 2>>
    /\ \A g \in {1, 2} : gpus[g].running_tasks = <<1, 2>>

InScenario6 == \E r \in Scenario6 : RunOf(r)

\* both jobs have been started and hold the GPU
BothResident ==
    \A t \in {1, 2} :
        /\ sorted_tasks[t].status = "running"
        /\ t \in Range(gpus[1].running_tasks)

\* estimated_duration * placement_penalty * sharing_penalty of task t, on
\* the GPUs as they are, equals seconds
EffectiveDurationIs(t, seconds) ==
    LET task == sorted_tasks[t]
        sharing_penalty == _get_task_sharing_penalty(gpus, task)
    IN  task.estimated_duration * calculate_penalty(task.allocated_gpus)
              * sharing_penalty.num
            = seconds * One * One * sharing_penalty.den

\* t1 is placed by the call at now = 50, on the one GPU, and while both
\* jobs are resident each has D_eff = 90
Scenario6Sharing ==
    /\ RefusedUntil(2, 50, 50)
    /\ \A i \in DOMAIN history :
          history[i].now = 50 => history[i].allocations = (2 :> <<1>>)
    /\ sorted_tasks[2].status # "pending" => sorted_tasks[2].start_time = 50
    /\ BothResident => \A t \in {1, 2} : EffectiveDurationIs(t, 90)

\* C20 (as claimed): in scenario 6, t0 is placed at t = 0 and finishes at
\* t = 100; t1 is placed at t = 50 on the same GPU; from t = 50 on, while
\* both are resident, each has D_eff = 90.
C20_Scenario6T0At100 ==
    InScenario6 =>
        /\ FirstCallPlacesT0On(<<1>>)
        /\ StartsAndCompletesAt(1, 0, 100)
        /\ Scenario6Sharing

\* C20 (amended): in scenario 6, t0 is placed at t = 0 and finishes at
\* t = 90; t1 is placed at t = 50 on the same GPU; from t = 50 on, while
\* both are resident, each has D_eff = 90.
C20_Scenario6T0At90 ==
    InScenario6 =>
        /\ FirstCallPlacesT0On(<<1>>)
        /\ StartsAndCompletesAt(1, 0, 90)
        /\ Scenario6Sharing

\* t = 90 in scenario 6: t0 has just completed, t1 has been running on the
\* same GPU since 50
C20_Witness ==
    /\ InScenario6
    /\ current_time = 90
    /\ pc = "account"
    /\ sorted_tasks[1].status = "completed"
    /\ sorted_tasks[1].completion_time = 90
    /\ sorted_tasks[2].status = "running"
    /\ sorted_tasks[2].start_time = 50
    /\ gpus[1].running_tasks = <<2>>

InScenario1 == \E r \in Scenario1 : RunOf(r)

\* C21: in scenario 1, t0 starts at 0 on [rack-0-0, rack-0-1], whose
\* penalty is the intra-rack 1.2, completes at 120, and has JCT 120 and
\* wait 0.
C21_Scenario1SingleJobFits ==
    InScenario1 =>
        /\ FirstCallPlacesT0On(<<1, 2>>)
        /\ StartsAndCompletesAt(1, 0, 120)
        /\ sorted_tasks[1].status # "pending" =>
              /\ sorted_tasks[1].allocated_gpus = <<1, 2>>
              /\ calculate_penalty(sorted_tasks[1].allocated_gpus) = 12
              /\ Task_get_wait_time(sorted_tasks[1]) = 0
        /\ sorted_tasks[1].status = "completed"
              <=> \/ current_time = 120 /\ pc \in {"account", "exit", "done"}
                  \/ current_time > 120
        /\ sorted_tasks[1].status = "completed"
              => Task_get_jct(sorted_tasks[1]) = 120

\* the run of scenario 1 has returned with t0 completed at 120
C21_Witness ==
    /\ InScenario1
    /\ pc = "done"
    /\ sorted_tasks[1].status = "completed"
    /\ sorted_tasks[1].completion_time = 120

InScenario5 == \E r \in Scenario5 : RunOf(r)

\* C22: in scenario 5, at the first schedule() call on the empty cluster,
\* the placement Pollux evaluates for width n is the first n GPUs of rack-0,
\* with penalty 1.0 for n = 1 and 1.2 for n >= 2; n^0.5 / penalty is
\* largest for n = 4 (compared as squares: 4 / p4^2 > n / pn^2), the choice
\* is width 4, and the call places t0 on all four GPUs of rack-0.
C22_Scenario5PicksFour ==
    InScenario5 =>
        /\ (pc = "schedule" /\ current_time = 0) =>
              LET st == NewCall(gpus, <<>>)
                  task == sorted_tasks[1]
                  placement(n) == Pollux_placement(st, task, n)
                  penalty(n) == Max2(One, calculate_penalty(placement(n)))
              IN  /\ \A g \in GpuIds : gpus[g].running_tasks = <<>>
                  /\ \A n \in 1 .. 4 :
                        /\ placement(n) = [i \in 1 .. n |-> i]
                        /\ penalty(n) = IF n = 1 THEN One ELSE 12
                  /\ \A n \in 1 .. 3 :
                        4 * penalty(n) * penalty(n)
                            > n * penalty(4) * penalty(4)
                  /\ Pollux_choice(st, task).n = 4
                  /\ Pollux_choice(st, task).allocation = <<1, 2, 3, 4>>
        /\ FirstCallPlacesT0On(<<1, 2, 3, 4>>)
        /\ sorted_tasks[1].status # "pending"
              => sorted_tasks[1].allocated_gpus = <<1, 2, 3, 4>>

\* the first call of scenario 5 has returned with t0 on the four GPUs
C22_Witness ==
    /\ InScenario5
    /\ pc = "start"
    /\ current_time = 0
    /\ allocations = (1 :> <<1, 2, 3, 4>>)
    /\ \A g \in 1 .. 4 : gpus[g].running_tasks = <<1>>

-----------------------------------------------------------------------------
(* Properties of jobs that no placement can satisfy *)

\* more GPUs than the cluster has under a scheduler that keeps the width,
\* or more memory per GPU than a GPU has
Unplaceable(t) ==
    \/ sorted_tasks[t].memory_per_gpu > cluster.gpu_memory
    \/ ~Elastic /\ sorted_tasks[t].num_gpus > get_total_gpus

\* the wait of task t was above starvation_threshold already one tick ago
WaitedTooLongBefore(t) ==
    /\ config.starvation_threshold # Infinity
    /\ current_time - config.time_step - sorted_tasks[t].submission_time
          > config.starvation_threshold

\* C23: a job that no placement can satisfy is in no schedule() result,
\* is never resident on a GPU and never started; a schedule() call whose
\* pending jobs are all of this kind leaves every GPU as it was; and while
\* the loop runs the job is STARVED exactly from the sweep of the first tick
\* at which its wait exceeds starvation_threshold (PENDING until then); at
\* the return of run it is STARVED.
C23_UnplaceableJobIsOmitted ==
    [][\A t \in TaskIds : Unplaceable(t) =>
          /\ \A i \in DOMAIN history : t \notin DOMAIN history[i].allocations
          /\ \A g \in GpuIds : t \notin Range(gpus[g].running_tasks)
          /\ sorted_tasks[t].status \in {"pending", "starved"}
          /\ sorted_tasks[t].allocated_gpus = <<>>
          /\ (/\ pc = "schedule"
              /\ \A u \in Range(pending_tasks) : Unplaceable(u))
                => gpus' = gpus /\ allocations' = <<>>
          /\ pc \notin {"exit", "done"} =>
                (sorted_tasks[t].status = "starved"
                    <=> /\ WaitedTooLong(t)
                        /\ pc # "sweep" \/ WaitedTooLongBefore(t))
          /\ pc' = "done" => sorted_tasks'[t].status = "starved"
      ]_vars

\* schedule() has returned at the tick whose sweep marked a job that asks
\* for too much memory, one tick after a call that had it pending, while a
\* job that fits was placed during the run
C23_Witness ==
    /\ pc = "start"
    /\ Len(history) >= 2
    /\ \E t \in TaskIds :
          /\ sorted_tasks[t].memory_per_gpu > cluster.gpu_memory
          /\ sorted_tasks[t].status = "starved"
          /\ WaitedTooLong(t)
          /\ ~WaitedTooLongBefore(t)
          /\ t \in Range(history[Len(history) - 1].pending)
    /\ \E u \in TaskIds : sorted_tasks[u].status \in {"running", "completed"}

-----------------------------------------------------------------------------
(* Properties of the life cycle of a task *)

\* C24: during a run a task's status changes only from PENDING to RUNNING
\* (when the placements are started), from RUNNING to COMPLETED (in the
\* update of the running tasks) or from PENDING to STARVED; COMPLETED and
\* STARVED are never left; and a task that is STARVED when schedule() is
\* called is not in the result of that call and is never started.
C24_StatusTransitions ==
    [][\A t \in TaskIds :
          LET before == sorted_tasks[t].status
              after == sorted_tasks'[t].status
          IN  /\ before # after =>
                    \/ before = "pending" /\ after = "running" /\ pc = "start"
                    \/ before = "running" /\ after = "completed"
                          /\ pc = "update"
                    \/ before = "pending" /\ after = "starved"
              /\ before \in {"completed", "starved"} => after = before
              /\ \A i \in DOMAIN history' :
                    history'[i].statuses[t] = "starved"
                        => t \notin DOMAIN history'[i].allocations
              /\ after = "starved" =>
                    /\ sorted_tasks'[t].start_time = None
                    /\ \A g \in GpuIds : t \notin Range(gpus'[g].running_tasks)
      ]_vars

\* schedule() has returned without placing the one task it was given, which
\* the sweep of this tick marked STARVED although the GPUs have room for it
C24_Witness ==
    /\ pc = "start"
    /\ allocations = <<>>
    /\ \E t \in TaskIds :
          /\ pending_tasks = <<t>>
          /\ sorted_tasks[t].status = "starved"
          /\ Len(history) >= 2
          /\ history[Len(history) - 1].statuses[t] = "pending"
          /\ Cardinality({g \in GpuIds :
                 /\ gpus[g].total_memory - gpus[g].used_memory > 0
                 /\ gpus[g].used_memory + sorted_tasks[t].memory_per_gpu
                       <= gpus[g].total_memory})
                >= sorted_tasks[t].num_gpus

-----------------------------------------------------------------------------
(* Properties of GPU.allocate and Scheduler.allocate *)

AllocateCalled == pc = "allocate_calls" /\ history # <<>>

\* the GPU after a successful allocate of mem for task t on the GPU before
Reserved(before, t, mem) ==
    [before EXCEPT
        !.used_memory = @ + mem,
        !.running_tasks = IF \E i \in DOMAIN @ : @[i] = t THEN @
                          ELSE @ \o <<t>>]

Distinct(gpu_ids) ==
    \A i, j \in DOMAIN gpu_ids : i # j => gpu_ids[i] # gpu_ids[j]

\* C25: GPU.allocate(job_id, mem) succeeds iff used_memory + mem <=
\* total_memory; on success it adds mem to used_memory and job_id to
\* running_tasks unless present; on failure it returns false and leaves the
\* GPU unchanged.  Scheduler.allocate over a list of distinct GPUs is
\* all-or-nothing: if a listed GPU fails can_allocate it returns false and
\* no GPU is changed, and when it returns true every listed GPU, and no
\* other, has been reserved.
C25_AllocateAllOrNothing ==
    AllocateCalled =>
        LET call == history[1]
            before == call.before
            mem == sorted_tasks[call.task_id].memory_per_gpu
            fits(g) == before[g].used_memory + mem <= before[g].total_memory
        IN  /\ call.op = "GPU.allocate" =>
                  LET g == call.gpu_ids[1]
                  IN  /\ call.returned <=> fits(g)
                      /\ call.returned
                            => gpus[g] = Reserved(before[g], call.task_id, mem)
                      /\ ~call.returned => gpus[g] = before[g]
                      /\ \A h \in GpuIds \ {g} : gpus[h] = before[h]
            /\ (call.op = "Scheduler.allocate" /\ Distinct(call.gpu_ids)) =>
                  /\ (\E i \in DOMAIN call.gpu_ids : ~fits(call.gpu_ids[i]))
                        => ~call.returned
                  /\ ~call.returned => gpus = before
                  /\ call.returned =>
                        \A g \in GpuIds :
                            gpus[g] = IF g \in Range(call.gpu_ids)
                                      THEN Reserved(before[g], call.task_id,
                                                    mem)
                                      ELSE before[g]

\* Scheduler.allocate was called on two distinct GPUs of which the first
\* could take the job and the second could not
C25_Witness ==
    /\ AllocateCalled
    /\ history[1].op = "Scheduler.allocate"
    /\ Len(history[1].gpu_ids) = 2
    /\ Distinct(history[1].gpu_ids)
    /\ LET call == history[1]
           mem == sorted_tasks[call.task_id].memory_per_gpu
       IN  /\ call.before[call.gpu_ids[1]].used_memory + mem
                 <= call.before[call.gpu_ids[1]].total_memory
           /\ call.before[call.gpu_ids[2]].used_memory + mem
                 > call.before[call.gpu_ids[2]].total_memory
           /\ sorted_tasks[call.task_id].num_gpus = 2

-----------------------------------------------------------------------------
(* Properties of the GPUs during a run *)

\* C26: in every reachable state of a run, a GPU's used_memory is 0 if and
\* only if its running_tasks is empty.
C26_UsedMemoryZeroIffIdle ==
    \A g \in GpuIds : gpus[g].used_memory = 0 <=> gpus[g].running_tasks = <<>>

\* C27: in every state of a run, every task that has started has
\* start_time >= submission_time, every COMPLETED task has
\* completion_time >= start_time and actual_duration = completion_time -
\* start_time, and every STARVED task has an empty allocated_gpus.
C27_TaskTimesOrdered ==
    \A t \in TaskIds :
        LET task == sorted_tasks[t]
        IN  /\ task.status \in {"running", "completed"} =>
                  /\ task.start_time # None
                  /\ task.start_time >= task.submission_time
            /\ task.status = "completed" =>
                  /\ task.completion_time # None
                  /\ task.completion_time >= task.start_time
                  /\ task.actual_duration
                        = task.completion_time - task.start_time
            /\ task.status = "starved" =>
                  /\ task.allocated_gpus = <<>>
                  /\ task.start_time = None

\* the run has returned with one task COMPLETED after a wait and the other
\* STARVED
C27_Witness ==
    /\ pc = "done"
    /\ \E t, u \in TaskIds :
          /\ sorted_tasks[t].status = "completed"
          /\ sorted_tasks[t].start_time > sorted_tasks[t].submission_time
          /\ sorted_tasks[t].completion_time > sorted_tasks[t].start_time
          /\ sorted_tasks[u].status = "starved"

-----------------------------------------------------------------------------
(* Properties of one schedule() call of First-Fit, Best-Fit and Rack-Aware *)
(* from any cluster state (SpecCall)                                       *)

\* GPU g, as the call found it, satisfies can_allocate(memory_per_gpu) of t
CanTake(e, g, t) ==
    e.before[g].used_memory + sorted_tasks[t].memory_per_gpu
        <= e.before[g].total_memory

\* GPU g had free memory when the call began
HadFreeMemory(e, g) == e.before[g].total_memory - e.before[g].used_memory > 0

\* The placements of a walk over the pending list in the order given, from
\* its i-th job on, A being the placements made so far: each PENDING job
\* takes the first num_gpus GPUs of the enumeration order that can take it
\* and are not in A, and a job with fewer such GPUs is passed over.
RECURSIVE FirstInOrder(_, _, _, _)
FirstInOrder(e, order, i, A) ==
    IF i > Len(e.pending) THEN A
    ELSE LET t == e.pending[i]
             qualifying ==
                 SelectSeq(order, LAMBDA g : g \notin Claimed(A) /\ CanTake(e, g, t))
         IN  IF /\ e.statuses[t] = "pending"
                /\ Len(qualifying) >= sorted_tasks[t].num_gpus
             THEN FirstInOrder(e, order, i + 1,
                      (t :> Prefix(qualifying, sorted_tasks[t].num_gpus)) @@ A)
             ELSE FirstInOrder(e, order, i + 1, A)

FirstFitReturned == Returned /\ scheduler.kind = "first_fit"

\* C28: First-Fit processes the pending jobs in the order given and places
\* each on the first requested_gpus GPUs, in flat cluster order, that
\* satisfy can_allocate(memory_per_gpu) and were not claimed earlier in the
\* same call; a job with fewer than requested_gpus such GPUs is skipped and
\* the later jobs of the queue are still placed.
C28_FirstFitByCanAllocate ==
    FirstFitReturned =>
        allocations = FirstInOrder(LastCall, get_all_gpus, 1, <<>>)

\* the same walk over the jobs that reserve memory: it is what First-Fit
\* returns whenever every pending job has memory_per_gpu > 0
C28_FirstFitOfJobsWithMemory ==
    (/\ FirstFitReturned
     /\ \A t \in Range(LastCall.pending) : sorted_tasks[t].memory_per_gpu > 0)
        => allocations = FirstInOrder(LastCall, get_all_gpus, 1, <<>>)

BestFitReturned == Returned /\ scheduler.kind = "best_fit"

\* used_memory / total_memory of a and of b compared by cross-multiplication
MoreUtilized(G, a, b) ==
    G[a].used_memory * G[b].total_memory > G[b].used_memory * G[a].total_memory

EquallyUtilized(G, a, b) ==
    G[a].used_memory * G[b].total_memory = G[b].used_memory * G[a].total_memory

\* The GPUs with free memory enumerated by utilization descending, GPUs of
\* equal utilization in flat cluster order: a GPU's place is one more than
\* the number of GPUs that come before it.
ByUtilization(G) ==
    LET avail == Range(Cluster_get_available_gpus(G))
        before(g) == {h \in avail : \/ MoreUtilized(G, h, g)
                                    \/ EquallyUtilized(G, h, g) /\ h < g}
    IN  [i \in 1 .. Cardinality(avail) |->
            CHOOSE g \in avail : Cardinality(before(g)) = i - 1]

\* what First-Fit returns for the pending list of call e when its list of
\* GPUs is order
FirstFitOver(e, order) ==
    FirstFit_loop(NewCall(e.before, order), e.pending).allocations

AllEquallyUtilized(G) == \A a, b \in GpuIds : EquallyUtilized(G, a, b)

\* C29: what Best-Fit's schedule() returns is what First-Fit returns when
\* its available GPUs are enumerated by utilization descending, ties in
\* flat cluster order; when all GPUs have equal utilization it is what
\* First-Fit returns for the same pending list.
C29_BestFitIsFirstFitByUtilization ==
    BestFitReturned =>
        /\ allocations = FirstFitOver(LastCall, ByUtilization(LastCall.before))
        /\ AllEquallyUtilized(LastCall.before) =>
              allocations
                  = FirstFitOver(LastCall,
                                 Cluster_get_available_gpus(LastCall.before))

\* Best-Fit has returned placements that First-Fit would not have made: two
\* jobs are placed, the first of them on a GPU that comes later in flat
\* order than a less utilized GPU that could take it
C29_Witness ==
    /\ BestFitReturned
    /\ Cardinality(DOMAIN allocations) = 2
    /\ allocations
          # FirstFitOver(LastCall, Cluster_get_available_gpus(LastCall.before))
    /\ \E t \in DOMAIN allocations, g \in GpuIds :
          /\ g < allocations[t][1]
          /\ HadFreeMemory(LastCall, g)
          /\ CanTake(LastCall, g, t)
          /\ MoreUtilized(LastCall.before, allocations[t][1], g)

RackAwareReturned == Returned /\ scheduler.kind = "rack_aware"

\* The pending list of call e in ascending num_gpus order, jobs of equal
\* num_gpus in the order of the list: a job's place is one more than the
\* number of jobs that come before it.
BySize(e) ==
    LET n(i) == sorted_tasks[e.pending[i]].num_gpus
        before(i) == {j \in DOMAIN e.pending : n(j) < n(i) \/ (n(j) = n(i) /\ j < i)}
    IN  [k \in DOMAIN e.pending |->
            e.pending[CHOOSE i \in DOMAIN e.pending : Cardinality(before(i)) = k - 1]]

\* The GPUs that qualify for t when the placements A have been made, in
\* flat cluster order: not claimed by A, with free memory if free_only,
\* and able to take memory_per_gpu
QualifyingUnclaimed(e, t, A, free_only) ==
    SelectSeq(get_all_gpus,
              LAMBDA g : /\ g \notin Claimed(A)
                         /\ free_only => HadFreeMemory(e, g)
                         /\ CanTake(e, g, t))

InRack(gpu_ids, r) == SelectSeq(gpu_ids, LAMBDA g : RackOf(g) = r)

\* the racks that hold at least num_gpus of the GPUs qualifying for t
RacksThatFit(e, t, A, free_only) ==
    {r \in RackIds :
        Len(InRack(QualifyingUnclaimed(e, t, A, free_only), r))
            >= sorted_tasks[t].num_gpus}

\* The placement of t after the placements A: the first num_gpus qualifying
\* GPUs of the lowest-ordinal rack that fits, otherwise (fallback) the first
\* num_gpus qualifying GPUs of the cluster, <<>> when there are fewer.
PlacementByRack(e, t, A, free_only) ==
    LET q == QualifyingUnclaimed(e, t, A, free_only)
        n == sorted_tasks[t].num_gpus
        fit == RacksThatFit(e, t, A, free_only)
    IN  IF e.statuses[t] # "pending" THEN <<>>
        ELSE IF fit # {}
             THEN Prefix(InRack(q, CHOOSE r \in fit : \A x \in fit : r <= x), n)
        ELSE IF Len(q) >= n THEN Prefix(q, n)
        ELSE <<>>

\* The placements of a walk over order from its i-th job on, as a sequence
\* of [task, gpu_ids, fallback] in the order they are made; A holds the
\* placements made so far.
RECURSIVE PlacedByRack(_, _, _, _, _)
PlacedByRack(e, order, i, A, free_only) ==
    IF i > Len(order) THEN <<>>
    ELSE LET t == order[i]
             gpu_ids == PlacementByRack(e, t, A, free_only)
         IN  IF gpu_ids = <<>>
             THEN PlacedByRack(e, order, i + 1, A, free_only)
             ELSE <<[task |-> t, gpu_ids |-> gpu_ids,
                     fallback |-> RacksThatFit(e, t, A, free_only) = {}]>>
                  \o PlacedByRack(e, order, i + 1, (t :> gpu_ids) @@ A,
                                  free_only)

\* the dict made of a sequence of placements
AsAllocations(placed) ==
    [t \in {placed[i].task : i \in DOMAIN placed} |->
        placed[CHOOSE i \in DOMAIN placed : placed[i].task = t].gpu_ids]

\* C30: Rack-Aware processes the pending jobs in ascending requested_gpus
\* order, ties in input order; a job is placed on the first requested_gpus
\* qualifying unclaimed GPUs of the lowest-ordinal rack that has that many,
\* otherwise on the first requested_gpus qualifying unclaimed GPUs in flat
\* cluster order, and every such fallback placement has penalty
\* inter_rack_penalty.  A GPU qualifies when it has free memory and
\* satisfies can_allocate(memory_per_gpu).
C30_RackAwareLowestRackElseFlat ==
    RackAwareReturned =>
        LET placed == PlacedByRack(LastCall, BySize(LastCall), 1, <<>>, TRUE)
        IN  /\ allocations = AsAllocations(placed)
            /\ \A i \in DOMAIN placed :
                  placed[i].fallback =>
                      calculate_penalty(placed[i].gpu_ids)
                          = cluster.inter_rack_penalty

\* the same walk with "qualifying" read as can_allocate(memory_per_gpu)
\* alone: it departs from the code only for jobs with memory_per_gpu = 0
C30_RackAwareByCanAllocateWithMemory ==
    (/\ RackAwareReturned
     /\ \A t \in Range(LastCall.pending) : sorted_tasks[t].memory_per_gpu > 0)
        => allocations
              = AsAllocations(PlacedByRack(LastCall, BySize(LastCall), 1,
                                           <<>>, FALSE))

\* Rack-Aware has returned from a call in which it took the second job of
\* the list first and placed it in rack 1, rack 0 having no GPU for it,
\* and then placed the first job across the racks
C30_Witness ==
    /\ RackAwareReturned
    /\ LET placed == PlacedByRack(LastCall, BySize(LastCall), 1, <<>>, TRUE)
       IN  /\ Len(placed) = 2
           /\ placed[1].task = LastCall.pending[2]
           /\ RackOf(placed[1].gpu_ids[1]) = 1
           /\ placed[2].task = LastCall.pending[1]
           /\ placed[2].fallback
           /\ allocations = AsAllocations(placed)

-----------------------------------------------------------------------------
(* Properties of one schedule() call of Pollux and Pollux-Patient from any *)
(* cluster state (SpecElastic)                                             *)

PolluxReturned == Returned /\ scheduler.kind = "pollux"

PolluxPatientReturned == Returned /\ scheduler.kind = "pollux_patient"

\* The state of call e when it came to task t: the GPUs of the placements
\* made before are in occupied_gpus, and every other GPU is as the call
\* found it.
AtTurn(e, t) ==
    [gpus |-> e.before, allocations |-> <<>>, available_gpus |-> <<>>,
     occupied_gpus |-> ClaimedBefore(e, t), tasks |-> sorted_tasks]

\* the best-scoring candidate [n, allocation, score] of t at its turn
BestCandidate(e, t) == PolluxPatient_choice(AtTurn(e, t), sorted_tasks[t])

\* 1 / C_best >= threshold, for C_best = den / num of the candidate's score
\* and a threshold in tenths
ReachesThreshold(score, threshold) == One * score.num >= threshold * score.den

WaitedBeyondLimit(e, t) ==
    e.now - sorted_tasks[t].submission_time > scheduler.starvation_limit

OnNoGpu(t) == \A g \in GpuIds : t \notin Range(gpus[g].running_tasks)

\* call e placed the best candidate of each PENDING job that has one if and
\* only if the candidate reaches the threshold or the job waited beyond
\* starvation_limit, and left every other such job off all GPUs
PlacedIffReaches(e, threshold) ==
    \A t \in Range(e.pending) :
        (e.statuses[t] = "pending" /\ BestCandidate(e, t).allocation # <<>>) =>
            IF \/ ReachesThreshold(BestCandidate(e, t).score, threshold)
               \/ WaitedBeyondLimit(e, t)
            THEN /\ t \in DOMAIN allocations
                 /\ allocations[t] = BestCandidate(e, t).allocation
            ELSE /\ t \notin DOMAIN allocations
                 /\ OnNoGpu(t)

\* C31: Pollux-Patient places a job's best-scoring candidate if and only if
\* 1 / C_best >= the efficiency threshold the scheduler was configured with
\* or now - submission_time > starvation_limit; otherwise the job is not
\* placed in that call and no GPU is changed for it.
C31_PlacedIffConfiguredThreshold ==
    PolluxPatientReturned =>
        PlacedIffReaches(LastCall, scheduler.patience_threshold)

\* the same with the threshold 0.8 that __init__ stores whatever it is
\* given: this is what the code does
C31_PlacedIffFixedThreshold ==
    PolluxPatientReturned =>
        PlacedIffReaches(LastCall, PolluxPatient_patience_threshold)

-----------------------------------------------------------------------------
(* Properties of the sharing efficiency Pollux-Patient predicts            *)
(* (SpecPredict)                                                           *)

Predicted == pc = "predict_calls" /\ history # <<>>

\* the simulator's per-GPU sharing factor for one tenant more than the GPU
\* of the last call holds
FactorWithOneMore ==
    _get_gpu_sharing_penalty(Len(gpus[LastCall.gpu].running_tasks) + 1)

\* C32: the sharing efficiency Pollux-Patient predicts for placing a job on
\* a GPU with k resident jobs is the value the simulator's per-GPU sharing
\* factor yields for k + 1 tenants under the simulator's configuration:
\* the map value at k + 1, or at the largest key, clamped to
\* [sharing_penalty_floor, 1.0].
C32_PredictionIsSimulatorFactor ==
    Predicted => LastCall.returned = FactorWithOneMore

\* the two agree when the simulator runs with the default map, no
\* sharing_penalty_fn and a floor that no value of the map is below
C32_PredictionUnderDefaultConfig ==
    (/\ Predicted
     /\ config.sharing_penalty_map = default_sharing_penalty_map
     /\ config.sharing_penalty_fn = <<>>
     /\ config.sharing_penalty_floor <= 8)
        => LastCall.returned = FactorWithOneMore

-----------------------------------------------------------------------------
(* Properties of Pollux's choice of a width (SpecElastic)                  *)

\* K: the GPUs that can take t and were not claimed before its turn
QualifyingCount(e, t) == Len(Pollux_available_gpus(AtTurn(e, t), sorted_tasks[t]))

\* the largest candidate width of t
LargestWidth(e, t) == Min2(sorted_tasks[t].num_gpus, QualifyingCount(e, t))

\* the candidate of width n of t and its topology penalty, at least 1.0
CandidateOfWidth(e, t, n) == Pollux_placement(AtTurn(e, t), sorted_tasks[t], n)

PenaltyOfWidth(e, t, n) == Max2(One, calculate_penalty(CandidateOfWidth(e, t, n)))

\* the jobs of call e that have a candidate
WithCandidates(e) ==
    {t \in Range(e.pending) :
        e.statuses[t] = "pending" /\ QualifyingCount(e, t) >= 1}

\* n / P(n) is the greatest over the widths of t, and greater than for any
\* smaller width
BestRatioWidth(e, t, n) ==
    /\ \A m \in 1 .. LargestWidth(e, t) :
          n * PenaltyOfWidth(e, t, m) >= m * PenaltyOfWidth(e, t, n)
    /\ \A m \in 1 .. (n - 1) :
          n * PenaltyOfWidth(e, t, m) > m * PenaltyOfWidth(e, t, n)

\* the candidate of width n has the least topology penalty of t's candidates
LeastPenaltyWidth(e, t, n) ==
    \A m \in 1 .. LargestWidth(e, t) :
        PenaltyOfWidth(e, t, n) <= PenaltyOfWidth(e, t, m)

PlacedAtWidth(e, t, n) ==
    /\ t \in DOMAIN allocations
    /\ allocations[t] = CandidateOfWidth(e, t, n)

\* the penalties under which n / P(n) grows with n up to width w
RatioGrowsUpTo(w) ==
    /\ cluster.intra_rack_penalty >= One
    /\ cluster.inter_rack_penalty < 2 * One
    /\ w > 1 =>
          cluster.inter_rack_penalty * (w - 1) < cluster.intra_rack_penalty * w

\* C33: with alpha = 1 Pollux places each job at the largest candidate
\* width n = min(requested_gpus, K), K being the number of qualifying GPUs
\* not claimed earlier in the call; with alpha = 0 it places each job on a
\* candidate of minimum topology penalty.
C33_WidestAtAlphaOne ==
    PolluxReturned =>
        \A t \in WithCandidates(LastCall) :
            /\ scheduler.alpha = One =>
                  PlacedAtWidth(LastCall, t, LargestWidth(LastCall, t))
            /\ scheduler.alpha = 0 =>
                  \E n \in 1 .. LargestWidth(LastCall, t) :
                      /\ PlacedAtWidth(LastCall, t, n)
                      /\ LeastPenaltyWidth(LastCall, t, n)

\* C33, amended: with alpha = 1 Pollux places each job at the smallest
\* width n <= min(requested_gpus, K) that maximizes n / P(n), P(n) being
\* the topology penalty of the width-n candidate; this is the largest
\* width W when inter_rack_penalty < 2 and inter_rack_penalty /
\* intra_rack_penalty < W / (W - 1).  With alpha = 0 it places each job on
\* a candidate of minimum topology penalty.
C33_BestRatioAtAlphaOne ==
    PolluxReturned =>
        \A t \in WithCandidates(LastCall) :
            /\ scheduler.alpha = One =>
                  /\ \E n \in 1 .. LargestWidth(LastCall, t) :
                        /\ PlacedAtWidth(LastCall, t, n)
                        /\ BestRatioWidth(LastCall, t, n)
                  /\ RatioGrowsUpTo(LargestWidth(LastCall, t)) =>
                        PlacedAtWidth(LastCall, t, LargestWidth(LastCall, t))
            /\ scheduler.alpha = 0 =>
                  \E n \in 1 .. LargestWidth(LastCall, t) :
                      /\ PlacedAtWidth(LastCall, t, n)
                      /\ LeastPenaltyWidth(LastCall, t, n)

\* Pollux with alpha = 1 has placed a job that could have had 2 GPUs, one in
\* each rack, on 1 GPU: with inter_rack_penalty 2.1 the second GPU lowers
\* n / P(n) from 1 to 2 / 2.1
C33_Witness ==
    /\ PolluxReturned
    /\ scheduler.alpha = One
    /\ \E t \in WithCandidates(LastCall) :
          /\ LargestWidth(LastCall, t) = 2
          /\ PlacedAtWidth(LastCall, t, 1)
          /\ BestRatioWidth(LastCall, t, 1)
          /\ PenaltyOfWidth(LastCall, t, 2) > 2 * PenaltyOfWidth(LastCall, t, 1)

-----------------------------------------------------------------------------
(* Properties of the accounting of GPU time *)

\* the step that closes a tick: placements and completions are done, the
\* busy time is about to be added
Accounts == pc = "account" /\ pc' \in {"sweep", "exit"}

\* C34: in each tick a GPU's accumulated busy time increases by exactly
\* time_step if its running_tasks is non-empty after that tick's placements
\* and completions have been processed, and is unchanged otherwise; the
\* metrics' total GPU time after the tick equals the sum of all GPUs'
\* accumulated busy time.
C34_BusyTimePerTick ==
    [][/\ Accounts =>
            /\ \A g \in DOMAIN gpus :
                  gpus'[g].total_time
                      = gpus[g].total_time
                        + (IF gpus[g].running_tasks # <<>>
                           THEN config.time_step ELSE 0)
            /\ metrics'.total_gpu_time
                  = SeqSum([g \in 1 .. Len(gpus') |-> gpus'[g].total_time])
       /\ ~Accounts =>
            \A g \in DOMAIN gpus : gpus'[g].total_time = gpus[g].total_time
      ]_vars

\* a tick of 2 seconds has been accounted with one GPU busy and one idle:
\* the busy one alone carries the total GPU time
C34_Witness ==
    /\ pc \in {"sweep", "exit"}
    /\ config.time_step = 2
    /\ \E g, h \in DOMAIN gpus :
          /\ gpus[g].running_tasks # <<>>
          /\ gpus[g].total_time = 2
          /\ gpus[h].total_time = 0
          /\ metrics.total_gpu_time = 2

-----------------------------------------------------------------------------
(* Properties of the simulator's sharing factor (SpecFactor) *)

FactorComputed == pc = "sharing_calls" /\ history # <<>>

\* the map value at k, or at the largest key when k is absent; the user
\* function's value when one is configured
SharingValue(k) ==
    IF config.sharing_penalty_fn # <<>>
    THEN config.sharing_penalty_fn[Min2(k, Len(config.sharing_penalty_fn))]
    ELSE IF k \in DOMAIN config.sharing_penalty_map
    THEN config.sharing_penalty_map[k]
    ELSE config.sharing_penalty_map[SetMax(DOMAIN config.sharing_penalty_map)]

Clamped(v) ==
    IF v < config.sharing_penalty_floor THEN config.sharing_penalty_floor
    ELSE IF v > One THEN One
    ELSE v

\* the per-GPU value of GPU g: from the number of jobs resident on it
PerGpuFactor(g) == Clamped(SharingValue(Len(gpus[g].running_tasks)))

\* C35: the sharing factor of a running job is computed per GPU of its
\* placement from k = number of resident jobs: the map value at k, or at
\* the largest key when k is absent, or the user function's value, clamped
\* to [sharing_penalty_floor, 1.0]; the per-GPU values are combined by
\* minimum under 'min' and by arithmetic mean under 'average', so the
\* factor lies in [sharing_penalty_floor, 1.0].
C35_SharingFactor ==
    FactorComputed =>
        LET placement == Range(sorted_tasks[LastCall.task_id].allocated_gpus)
            returned == LastCall.returned
        IN  /\ config.sharing_penalty_aggregation = "min" =>
                  /\ \E g \in placement :
                        returned.num = PerGpuFactor(g) * returned.den
                  /\ \A g \in placement :
                        returned.num <= PerGpuFactor(g) * returned.den
            /\ config.sharing_penalty_aggregation = "average" =>
                  returned.num * Cardinality(placement)
                      = returned.den
                        * SeqSum([i \in 1 .. Len(sorted_tasks[LastCall.task_id].allocated_gpus) |->
                                    PerGpuFactor(sorted_tasks[LastCall.task_id].allocated_gpus[i])])
            /\ config.sharing_penalty_floor * returned.den <= returned.num
            /\ returned.num <= One * returned.den

\* the factor of the job on both GPUs has been computed under 'average'
\* from two different per-GPU values, one of them raised to the floor
C35_Witness ==
    /\ FactorComputed
    /\ config.sharing_penalty_aggregation = "average"
    /\ Len(sorted_tasks[LastCall.task_id].allocated_gpus) = 2
    /\ PerGpuFactor(1) # PerGpuFactor(2)
    /\ SharingValue(Len(gpus[2].running_tasks)) < config.sharing_penalty_floor
    /\ LastCall.returned.num * 2
          = LastCall.returned.den * (PerGpuFactor(1) + PerGpuFactor(2))

-----------------------------------------------------------------------------
(* Occupancy and job status (Spec) *)

\* the ids of the jobs resident on GPU g
ResidentOn(g) == Range(gpus[g].running_tasks)

\* C36: at every tick boundary every job id in a GPU's running_tasks is the
\* id of a RUNNING job whose allocated_gpus contains that GPU; PENDING,
\* STARVED and COMPLETED jobs are resident on no GPU, and the memory
\* reserved on each GPU is that of its RUNNING residents alone.
C36_ResidentsAreRunning ==
    TickBoundary =>
        /\ \A g \in GpuIds : \A t \in ResidentOn(g) :
              /\ t \in TaskIds
              /\ sorted_tasks[t].status = "running"
              /\ g \in Range(sorted_tasks[t].allocated_gpus)
        /\ \A t \in TaskIds :
              sorted_tasks[t].status \in {"pending", "starved", "completed"} =>
                  \A g \in GpuIds : t \notin ResidentOn(g)
        /\ \A g \in GpuIds :
              gpus[g].used_memory
                  = SeqSum([i \in 1 .. Len(gpus[g].running_tasks) |->
                              sorted_tasks[gpus[g].running_tasks[i]].memory_per_gpu])

\* a tick boundary at which a job placed on two GPUs has completed and left
\* both, while one of these GPUs is held by a job still running
C36_Witness ==
    /\ pc = "sweep"
    /\ \E t \in TaskIds, u \in TaskIds, g \in GpuIds :
          /\ sorted_tasks[t].status = "completed"
          /\ Len(sorted_tasks[t].allocated_gpus) = 2
          /\ g \in Range(sorted_tasks[t].allocated_gpus)
          /\ sorted_tasks[u].status = "running"
          /\ ResidentOn(g) = {u}

\* run() has returned and every job is COMPLETED or STARVED
ReturnedAllTerminal ==
    /\ pc = "done"
    /\ \A t \in TaskIds : sorted_tasks[t].status \in {"completed", "starved"}

\* C37: when run() returns with every job COMPLETED or STARVED, every GPU
\* has used_memory = 0 and empty running_tasks.
C37_NothingReservedAtReturn ==
    ReturnedAllTerminal =>
        \A g \in GpuIds :
            /\ gpus[g].used_memory = 0
            /\ gpus[g].running_tasks = <<>>

\* run() has returned with every job terminal after a job was placed on
\* fewer GPUs than it requested and a job was placed on a GPU that another
\* job was holding
C37_Witness ==
    /\ ReturnedAllTerminal
    /\ \E t \in TaskIds :
          /\ sorted_tasks[t].status = "completed"
          /\ Len(sorted_tasks[t].allocated_gpus) < sorted_tasks[t].num_gpus
    /\ \E i \in DOMAIN history : \E t \in DOMAIN history[i].allocations :
          \E g \in Range(history[i].allocations[t]) :
              \/ history[i].before[g].running_tasks # <<>>
              \/ \E u \in DOMAIN history[i].allocations :
                    u # t /\ g \in Range(history[i].allocations[u])

-----------------------------------------------------------------------------
(* Termination (SpecTerminating) *)

\* C38: with time_step > 0, a finite starvation_threshold and finite job
\* durations, run() terminates under every scheduler although max_time is
\* +infinity: every job eventually is COMPLETED or STARVED, and the loop
\* exits at the tick the last job becomes terminal (no tick is begun with
\* every job terminal, and the clock at return is that of the exit).
C38_Terminates ==
    /\ [](pc = "sweep" => ~all_done)
    /\ [][pc = "exit" => current_time' = current_time]_vars
    /\ <>(pc = "done" /\ all_done)

\* run() has returned at a time beyond the starvation threshold with a job
\* completed and a job starved
C38_Witness ==
    /\ pc = "done"
    /\ all_done
    /\ config.max_time = Infinity
    /\ Greater(current_time, config.starvation_threshold)
    /\ \E t \in TaskIds : sorted_tasks[t].status = "completed"
    /\ \E t \in TaskIds : sorted_tasks[t].status = "starved"

-----------------------------------------------------------------------------
(* Min-GPU-Time against Rack-Aware (SpecCompare) *)

MinGPUTimeReturned == Returned /\ scheduler.kind = "min_gpu_time"

\* the pending list of call e is in ascending order of num_gpus
AscendingBySize(e) ==
    \A i \in DOMAIN e.pending : \A j \in DOMAIN e.pending :
        i < j => sorted_tasks[e.pending[i]].num_gpus
                    <= sorted_tasks[e.pending[j]].num_gpus

\* what RackAwareScheduler.schedule returns from the cluster state and the
\* pending list of call e
RackAwareFrom(e) ==
    RackAware_loop(NewCall(e.before, <<>>), RackAware_sorted_tasks(e.pending))

\* C39: when patience_threshold >= inter_rack_penalty and the pending list
\* is in ascending order of requested GPUs, schedule() of Min-GPU-Time
\* returns the placements that schedule() of Rack-Aware returns from the
\* same cluster state, and leaves the same reservations.
C39_SameAsRackAware ==
    /\ MinGPUTimeReturned
    /\ scheduler.patience_threshold >= cluster.inter_rack_penalty
    /\ AscendingBySize(LastCall)
    => /\ allocations = RackAwareFrom(LastCall).allocations
       /\ gpus = RackAwareFrom(LastCall).gpus

\* a call with patience_threshold equal to the inter-rack penalty and an
\* ascending pending list that placed a job on one GPU and the next one
\* across the racks
C39_Witness ==
    /\ MinGPUTimeReturned
    /\ scheduler.patience_threshold = cluster.inter_rack_penalty
    /\ AscendingBySize(LastCall)
    /\ \E t \in DOMAIN allocations, u \in DOMAIN allocations :
          /\ t < u
          /\ Len(allocations[t]) = 1
          /\ Len(allocations[u]) > 1
          /\ calculate_penalty(allocations[u]) = cluster.inter_rack_penalty

-----------------------------------------------------------------------------
(* Which candidate decides under Pollux-Patient (SpecElastic) *)

\* the widths the scheduler tries for t at its turn in call e
WidthsTried(e, t) ==
    1 .. Min2(sorted_tasks[t].num_gpus,
              Len(Pollux_available_gpus(AtTurn(e, t), sorted_tasks[t])))

\* some candidate of t, of any width, has 1 / C >= threshold
SomeCandidateReaches(e, t, threshold) ==
    \E n \in WidthsTried(e, t) :
        LET cands == PolluxPatient_candidates(AtTurn(e, t), sorted_tasks[t], n)
        IN  \E i \in DOMAIN cands :
                ReachesThreshold(PolluxPatient_score(e.before, n, cands[i]),
                                 threshold)

\* t was PENDING when call e came to it and the scheduler found candidates
HadCandidates(e, t) ==
    /\ t \in Range(e.pending)
    /\ e.statuses[t] = "pending"
    /\ WidthsTried(e, t) # {}

\* C40: under Pollux-Patient a PENDING job of which some candidate, of any
\* width, has efficiency 1 / C >= the efficiency threshold is placed in the
\* call; a job that has not waited beyond starvation_limit is left waiting
\* only when none of its candidates reaches the threshold.
C40_PlacedIfSomeCandidateReaches ==
    PolluxPatientReturned =>
        \A t \in TaskIds :
            /\ HadCandidates(LastCall, t)
            /\ SomeCandidateReaches(LastCall, t, PolluxPatient_patience_threshold)
            => t \in DOMAIN allocations

\* what the code does: a job with candidates is left waiting exactly when
\* its best-scoring candidate misses the threshold 0.8 and it has not
\* waited beyond starvation_limit, whatever its other candidates reach; a
\* job asking for one GPU, whose candidates all have width 1, is placed
\* when some candidate reaches the threshold
C40_BestScoringCandidateDecides ==
    PolluxPatientReturned =>
        \A t \in TaskIds : HadCandidates(LastCall, t) =>
            /\ t \notin DOMAIN allocations
                  <=> /\ ~ReachesThreshold(BestCandidate(LastCall, t).score,
                                           PolluxPatient_patience_threshold)
                      /\ ~WaitedBeyondLimit(LastCall, t)
            /\ /\ sorted_tasks[t].num_gpus = 1
               /\ SomeCandidateReaches(LastCall, t,
                                       PolluxPatient_patience_threshold)
               => t \in DOMAIN allocations

\* a job that has not waited beyond starvation_limit is left waiting because
\* its best-scoring candidate, wider than one GPU, misses the threshold,
\* while an idle GPU alone would have efficiency 1.0
C40_Witness ==
    /\ PolluxPatientReturned
    /\ \E t \in TaskIds :
          /\ HadCandidates(LastCall, t)
          /\ ~WaitedBeyondLimit(LastCall, t)
          /\ t \notin DOMAIN allocations
          /\ BestCandidate(LastCall, t).n > 1
          /\ \E g \in GpuIds :
                /\ LastCall.before[g].running_tasks = <<>>
                /\ g \notin ClaimedBefore(LastCall, t)
                /\ ReachesThreshold(
                       PolluxPatient_score(LastCall.before, 1, <<g>>), One)

====
